---- MODULE Spec2Model ----
(***************************************************************************)
(* Connection construction core of the NEST simulator                      *)
(* (nestkernel/conn_builder.cpp): the builder base class ConnBuilder and   *)
(* the rule strategies, as a state machine.  Worker threads of the OpenMP  *)
(* parallel regions are interleaved one loop iteration at a time; the      *)
(* sequential code before and after a region is one step of the caller.    *)
(*                                                                         *)
(* Threads are numbered globally over all MPI ranks, thread t living on    *)
(* rank t \div threads_per_rank.  Every node is owned by one thread; on    *)
(* every other thread get_node_or_proxy() hands out a proxy.               *)
(***************************************************************************)
EXTENDS Integers, Sequences, FiniteSets, Bags, TLC

\* ------------------------------------------------------------- bounds
NumNodes == 3
NumThreads == 2
NumSynSpecs == 2
\* Random numbers in [0, 1) and probabilities in [0, 1] are multiples of 1/PDen.
PDen == 2
\* Largest scalar indegree / outdegree.
MaxDegree == 2
\* Largest total number of connections N, in single connections.
MaxN == 3
\* Largest total number of connections N, in units of 2^30 connections.
MaxUnits == 4
\* Largest number of values a thread is ahead of another in a random stream.
MaxStream == 6

Nodes == 1..NumNodes
Threads == 0..(NumThreads - 1)

\* ------------------------------------------------------------ helpers
RECURSIVE SetToSortedSeq(_)
SetToSortedSeq(S) ==
  IF S = {} THEN <<>>
  ELSE LET m == CHOOSE x \in S : \A y \in S : x <= y
       IN <<m>> \o SetToSortedSeq(S \ {m})

\* A NodeCollection: node ids in increasing order, each at most once.
NodeCollections == {SetToSortedSeq(S) : S \in (SUBSET Nodes) \ {{}}}

Range(seq) == {seq[i] : i \in DOMAIN seq}

RECURSIVE SumOver(_, _)
SumOver(f, S) ==
  IF S = {} THEN 0
  ELSE LET x == CHOOSE y \in S : TRUE IN f[x] + SumOver(f, S \ {x})

\* Multiplicity of element e in bag b.
Mult(b, e) == IF e \in DOMAIN b THEN b[e] ELSE 0

RECURSIVE BagSum(_, _)
BagSum(b, S) ==
  IF S = {} THEN 0
  ELSE LET x == CHOOSE y \in S : TRUE IN b[x] + BagSum(b, S \ {x})

\* The sum of the bags b[x], x in S.
RECURSIVE BagsOver(_, _)
BagsOver(b, S) ==
  IF S = {} THEN EmptyBag
  ELSE LET x == CHOOSE y \in S : TRUE IN b[x] (+) BagsOver(b, S \ {x})

\* -------------------------------------------------------------- state
VARIABLES
  rule,                        \* which ConnBuilder subclass this builder is
  sources_, targets_,          \* ConnBuilder::sources_, targets_
  allow_autapses_, allow_multapses_, make_symmetric_,
  use_structural_plasticity_,
  skipping,                    \* parameters_requiring_skipping_.size() > 0
  n_syn,                       \* synapse_params_.size()
  conn_spec,                   \* the rule's parameters (indegree, p, N, ...)
  owner,                       \* node id -> thread that holds the node
  threads_per_rank,            \* kernel().vp_manager.get_num_threads()
  stage,                       \* position of the calling thread
  outcome,                     \* how the last call ended
  pc, it,                      \* per worker: position, loop counter
  cursor,                      \* per worker: position of array parameters
  connections,                 \* bag of edges handed to the connection storage
  z_connected,                 \* per node: connected pre/post synaptic elements
  exceptions_raised_,          \* per worker: captured failure
  n_connect_,                  \* number of connect_() runs of the current call
  loc,                         \* per worker: local variables of the rule's loop
  m,                           \* local variables of the calling thread
  random_params,               \* some synapse parameter is distribution-backed
  third_,                      \* TripartiteBernoulliWithPoolBuilder::third_
  synced_rng,                  \* get_vp_synced_rng: one sequence, a position per thread
  has_proxies,                 \* per node: Node::has_proxies()
  requires_symmetric,          \* a selected synapse model has REQUIRES_SYMMETRIC
  syn_specs,                   \* per synapse spec: which synaptic-element keys it has
  run,                         \* the seeds of the generators: free, or a fixed sequence
  thrown                       \* what the WrappedThreadException of the last call carries

cfgvars == <<rule, allow_autapses_, allow_multapses_, make_symmetric_,
             use_structural_plasticity_, skipping, n_syn, conn_spec,
             owner, threads_per_rank, random_params, third_, has_proxies,
             requires_symmetric, syn_specs>>
vars == <<rule, sources_, targets_, allow_autapses_, allow_multapses_,
          make_symmetric_, use_structural_plasticity_, skipping, n_syn, conn_spec,
          owner, threads_per_rank, stage, outcome, pc, it, cursor, connections,
          z_connected, exceptions_raised_, n_connect_, loc, m, random_params,
          third_, synced_rng, has_proxies, requires_symmetric, syn_specs,
          run, thrown>>

\* Local variables before the loop that declares them is entered.
NoLocals == [j |-> 0, ch_ids |-> {}]

\* ---------------------------------------------------------- random streams
\* Threads that hold the same seed read the same sequence of raw values, each
\* at its own position.  A raw value is fixed when the first thread reads it,
\* as one of the n values that the draw it serves can tell apart.  Of the
\* sequence, the part that some thread has still to read is kept: stream holds
\* the values after the position of the slowest thread, and pos[tid] is how
\* far thread tid is ahead of that thread.
NoDraws == [stream |-> <<>>, pos |-> [tid \in Threads |-> 0]]

\* The values every thread has read are dropped.
rng_trim(stream, pos, v) ==
  LET d == CHOOSE x \in {pos[tid] : tid \in Threads} :
             \A tid \in Threads : x <= pos[tid]
  IN [stream |-> SubSeq(stream, d + 1, Len(stream)),
      pos |-> [tid \in Threads |-> pos[tid] - d],
      v |-> v]

\* The states of the stream r after thread tid has taken one value v for a
\* draw that tells n values apart.
rng_next(r, tid, n) ==
  IF r.pos[tid] < Len(r.stream)
  THEN {rng_trim(r.stream, [r.pos EXCEPT ![tid] = @ + 1], r.stream[r.pos[tid] + 1])}
  ELSE IF Len(r.stream) >= MaxStream THEN {}
  ELSE {rng_trim(Append(r.stream, v), [r.pos EXCEPT ![tid] = @ + 1], v) :
          v \in 0..(n - 1)}

\* The value taken last.
rng_value(r) == r.v

\* The stream without the value taken last.
rng_state(r) == [stream |-> r.stream, pos |-> r.pos]

\* The states of the stream r after thread tid has taken k values for the
\* parameters of an edge.
RECURSIVE rng_consume(_, _, _)
rng_consume(r, tid, k) ==
  IF k = 0 THEN {r}
  ELSE UNION {rng_consume(r2, tid, k - 1) : r2 \in rng_next(r, tid, NumNodes)}

\* rng->ulrand( n ) for the raw value v
ulrand(v, n) == v % n

\* rng->drand() < num / den for the raw value v, drand being ( v % den ) / den
drand_less(v, num, den) == (v % den) < num

\* The number of values of drand that rng->drand() < num / den tells apart.
drand_classes(num, den) == IF num = 0 \/ num = den THEN 1 ELSE den

\* rng->sample( first, last, out, n ) for the raw value v: n elements of coll,
\* in the order of coll
sample(v, coll, n) ==
  SetToSortedSeq({coll[((v + k) % Len(coll)) + 1] : k \in 0..(n - 1)})

\* The number of samples of n elements of coll that sample tells apart.
sample_classes(coll, n) == IF n = Len(coll) THEN 1 ELSE Len(coll)

\* bino_dist( rng, param( n, num / den ) ) for the raw value v
binomial_sample(v, n, num, den) ==
  IF num = 0 THEN 0 ELSE IF num = den THEN n ELSE v % (n + 1)

\* The number of values bino_dist( rng, param( n, num / den ) ) can return.
binomial_classes(n, num, den) == IF num = 0 \/ num = den THEN 1 ELSE n + 1

\* ------------------------------------------------------ seeded generators
\* The generators a rule draws from by itself: the generator of each virtual
\* process, get_vp_specific_rng( tid ), and the generator all ranks share,
\* get_rank_synced_rng(), which only the calling thread reads.
grng == NumThreads

Generators == Threads \cup {grng}

\* The values of a generator are free (any value at every draw), or they are
\* the values of a seed: log[g] is the sequence generator g delivers and at[g]
\* the number of values taken from it.  In mode "first" the sequence is fixed
\* as it is read, in mode "again" the same sequence is read once more.
FreeRun == [mode |-> "free", log |-> [g \in Generators |-> <<>>],
            at |-> [g \in Generators |-> 0],
            first |-> [edges |-> EmptyBag, log |-> [g \in Generators |-> <<>>]]]

\* Generators seeded once: the sequence of each is fixed, value by value, as
\* the first build reads it.
SeededRun == [FreeRun EXCEPT !.mode = "first"]

\* The longest sequence a seed is followed for.
MaxDraws == 4

\* Element number i of the finite set S, in a fixed order of its elements.
RECURSIVE nth(_, _)
nth(S, i) ==
  LET x == CHOOSE y \in S : TRUE
  IN IF i = 0 THEN x ELSE nth(S \ {x}, i - 1)

draw_Unseeded(r, g, S) ==
  IF r.mode = "free" THEN {[x |-> e, run |-> r] : e \in S}
  ELSE {[x |-> e, run |-> [r EXCEPT !.at[g] = @ + 1,
                                     !.log[g] = IF r.at[g] < Len(@) THEN @
                                                ELSE Append(@, 0)]] : e \in S}

\* One draw of generator g that selects an element of S, the generators being
\* in state r: the outcomes, each with the element x and the state after it.
\* The raw value v selects element v mod |S|.
draw(r, g, S) ==
  IF r.mode = "free" THEN {[x |-> e, run |-> r] : e \in S}
  ELSE IF r.at[g] < Len(r.log[g])
  THEN {[x |-> nth(S, r.log[g][r.at[g] + 1] % Cardinality(S)),
         run |-> [r EXCEPT !.at[g] = @ + 1]]}
  ELSE IF Len(r.log[g]) >= MaxDraws THEN {}
  ELSE {[x |-> nth(S, v),
         run |-> [r EXCEPT !.at[g] = @ + 1, !.log[g] = Append(@, v)]] :
          v \in 0..(Cardinality(S) - 1)}

\* ------------------------------------------------- node location service
\* get_node_or_proxy( node_id, tid )->is_proxy()
is_proxy(node_id, tid) == owner[node_id] # tid

\* kernel().node_manager.get_local_nodes( tid ), in node id order
get_local_nodes(tid) == SetToSortedSeq({n \in Nodes : owner[n] = tid})

\* NodeCollection::get_lid: index of the node in the collection, -1 if absent
get_lid(coll, node_id) ==
  IF \E i \in DOMAIN coll : coll[i] = node_id
  THEN (CHOOSE i \in DOMAIN coll : coll[i] = node_id) - 1
  ELSE -1

\* NodeCollection::is_range: a contiguous range of node ids
is_range(coll) == \A i \in 1..(Len(coll) - 1) : coll[i + 1] = coll[i] + 1

\* ------------------------------------------------------- ConnBuilder base
loop_over_targets_Flipped ==
  ~(Len(targets_) < NumNodes \/ ~is_range(targets_) \/ skipping)

loop_over_targets_ ==
  Len(targets_) < NumNodes \/ ~is_range(targets_) \/ skipping

\* skip_conn_parameter_( tid, n ): every registered parameter skips n values
skip_conn_parameter_(cur, tid, n) ==
  IF skipping THEN [cur EXCEPT ![tid] = @ + n] ELSE cur

Edge(tid, k, s, t) == [thread |-> tid, syn |-> k, src |-> s, tgt |-> t]

\* The edges of one single_connect_ call: one per synapse specification.
single_connect_Once(snode_id, tnode_id, tid) ==
  SetToBag({Edge(tid, 1, snode_id, tnode_id)})

single_connect_(snode_id, tnode_id, tid) ==
  SetToBag({Edge(tid, k, snode_id, tnode_id) : k \in 1..n_syn})

\* ConnBuilder::requires_proxies(): true for the rules of this file.
requires_proxies == TRUE

\* The test at the head of single_connect_: IllegalConnection is thrown,
\* before any connection is created.
single_connect_throws(tnode_id) == requires_proxies /\ ~has_proxies[tnode_id]

\* The number of values one single_connect_ call takes from the generator it
\* is handed: one per synapse specification with a distribution-backed
\* parameter.
values_per_connect == IF random_params THEN n_syn ELSE 0

value_advance_Never(cur, tid) == cur

\* The parameter cursors after one single_connect_ call on thread tid: every
\* registered parameter delivers one value.
value_advance(cur, tid) ==
  IF skipping THEN [cur EXCEPT ![tid] = @ + 1] ELSE cur

\* One call of single_connect_ on thread tid for the pair (s, t), made when k
\* values have been taken from the array parameters since the start of the
\* step: idx is the position of the array values the call uses.
Call(tid, s, t, k) ==
  [src |-> s, tgt |-> t, idx |-> IF skipping THEN cursor[tid] + k ELSE 0]

\* The edges of one single_connect_ call with the values of their attributes:
\* the position idx of the array-indexed ones and the value rnd that the
\* distribution-backed ones have drawn.  With free generators the values are
\* not recorded.
single_connect_values(r, call, tid, rnd) ==
  IF r.mode = "free" THEN single_connect_(call.src, call.tgt, tid)
  ELSE SetToBag({[thread |-> tid, syn |-> k, src |-> call.src, tgt |-> call.tgt,
                  idx |-> call.idx, rnd |-> rnd] : k \in 1..n_syn})

\* The draw of single_connect_ for the distribution-backed parameters, from
\* the generator of the thread.
parameter_draw(r, tid) ==
  IF random_params /\ r.mode # "free" THEN draw(r, tid, 0..1)
  ELSE {[x |-> 0, run |-> r]}

\* The calls of single_connect_ that thread tid makes in the order calls, the
\* generators being in state r: the edges handed to storage and the state of
\* the generators after the last call.
RECURSIVE connect_calls(_, _, _)
connect_calls(r, tid, calls) ==
  IF calls = <<>> THEN {[edges |-> EmptyBag, run |-> r]}
  ELSE UNION {{[edges |-> single_connect_values(r, Head(calls), tid, d.x) (+) rest.edges,
                run |-> rest.run] :
                 rest \in connect_calls(d.run, tid, Tail(calls))} :
              d \in parameter_draw(r, tid)}

\* The step hands the edges of these calls to the connection storage.
Emit(r, tid, calls) ==
  \E c \in connect_calls(r, tid, calls) :
    /\ connections' = connections (+) c.edges
    /\ run' = c.run

\* Which rules declare supports_symmetric().
supports_symmetric == rule \in {"one_to_one", "symmetric_pairwise_bernoulli"}

creates_symmetric_connections_Never == FALSE

\* creates_symmetric_connections_, set by the constructor of the rule.
creates_symmetric_connections_ == rule = "symmetric_pairwise_bernoulli"

\* ConnBuilder::all_parameters_scalar_(): no weight, delay or synapse parameter
\* is array-indexed or distribution-backed.
all_parameters_scalar_ == ~skipping /\ ~random_params

\* is_symmetric() of the rule: all-to-all connections with equal source and
\* target populations and default or scalar parameters, and the rule that
\* creates symmetric connections itself.
is_symmetric ==
  \/ rule = "all_to_all" /\ sources_ = targets_ /\ all_parameters_scalar_
  \/ rule = "symmetric_pairwise_bernoulli"

connect_checks_None == "ok"

\* The tests of ConnBuilder::connect() that precede sp_connect_() and
\* connect_(): "ok", or the exception thrown.
connect_checks ==
  IF requires_symmetric /\ ~(is_symmetric \/ make_symmetric_) THEN "BadProperty"
  ELSE IF make_symmetric_ /\ ~supports_symmetric THEN "NotImplemented"
  ELSE IF use_structural_plasticity_ /\ make_symmetric_ THEN "NotImplemented"
  ELSE "ok"

\* exceptions_raised_.at( tid ).get(): the slot of thread tid holds a failure.
Populated(tid) == exceptions_raised_[tid] # <<>>

\* The loop over the slots at the end of a call: the first populated slot
\* makes the call throw a WrappedThreadException.
Raised ==
  IF \E tid \in Threads : Populated(tid)
  THEN "WrappedThreadException" ELSE "ok"

\* What that WrappedThreadException is constructed from: the content of the
\* first populated slot in the order tid = 0, 1, ...
FirstSlot_Highest(tid) ==
  IF \A t \in Threads : ~Populated(t) THEN <<>>
  ELSE exceptions_raised_[CHOOSE t \in Threads :
                            Populated(t) /\ \A u \in Threads : Populated(u) => u <= t]

RECURSIVE FirstSlot(_)
FirstSlot(tid) ==
  IF tid >= NumThreads THEN <<>>
  ELSE IF Populated(tid) THEN exceptions_raised_[tid]
  ELSE FirstSlot(tid + 1)

Rethrown == FirstSlot(0)

\* The slots after the catch block of thread tid has stored the failure what
\* of the call for the pair (snode_id, tnode_id).
Caught(tid, what, snode_id, tnode_id) ==
  [exceptions_raised_ EXCEPT ![tid] =
     <<[thread |-> tid, what |-> what, src |-> snode_id, tgt |-> tnode_id]>>]

\* Rules whose connect_ runs sequential code of the calling thread before its
\* first parallel region.
starts_sequential == rule \in {"fixed_outdegree", "fixed_total_number"}

\* Number of iterations of the worker loop of the rule on thread tid, for
\* the collections srcs, tgts.
LoopLen(tid, tgts, over_targets) ==
  IF over_targets THEN Len(tgts) ELSE Len(get_local_nodes(tid))

\* Number of iterations of the first worker loop of connect_ on thread tid.
RegionLen(tid) ==
  IF starts_sequential THEN 0
  ELSE IF rule \in {"symmetric_pairwise_bernoulli", "tripartite_bernoulli_with_pool"}
       THEN Len(targets_)
  ELSE LoopLen(tid, targets_, loop_over_targets_)

\* Entering a parallel region: every worker starts its loop.
StartRegion(len) ==
  /\ pc' = [tid \in Threads |-> IF len[tid] = 0 THEN "done" ELSE "run"]
  /\ it' = [tid \in Threads |-> 0]

\* A worker has finished iteration it[tid] of a loop of n iterations.
Advance(tid, n) ==
  /\ it' = [it EXCEPT ![tid] = @ + 1]
  /\ pc' = [pc EXCEPT ![tid] = IF it[tid] + 1 >= n THEN "done" ELSE "run"]

\* ------------------------------------------------------------ OneToOne
OneToOne_autapse_rejected_Never(snode_id, tnode_id) == FALSE

\* The autapse test of the target loop of OneToOneBuilder::connect_.
OneToOne_autapse_rejected(snode_id, tnode_id) ==
  snode_id = tnode_id /\ ~allow_autapses_

\* The autapse test of the local-node loop of OneToOneBuilder::connect_.
OneToOne_autapse_rejected_local(snode_id, tnode_id) ==
  ~allow_autapses_ /\ snode_id = tnode_id

\* OneToOneBuilder::connect_, one iteration of the worker loop of thread tid.
OneToOne_target_loop(tid) ==
  LET snode_id == sources_[it[tid] + 1]
      tnode_id == targets_[it[tid] + 1]
  IN IF OneToOne_autapse_rejected(snode_id, tnode_id)
     THEN UNCHANGED <<connections, cursor, run>>
     ELSE IF is_proxy(tnode_id, tid)
     THEN /\ cursor' = skip_conn_parameter_(cursor, tid, 1)
          /\ UNCHANGED <<connections, run>>
     ELSE /\ Emit(run, tid, <<Call(tid, snode_id, tnode_id, 0)>>)
          /\ cursor' = value_advance(cursor, tid)

OneToOne_local_loop(tid) ==
  LET tnode_id == get_local_nodes(tid)[it[tid] + 1]
      lid == get_lid(targets_, tnode_id)
  IN IF lid < 0
     THEN UNCHANGED <<connections, cursor, run>>
     ELSE LET snode_id == sources_[lid + 1]
          IN IF OneToOne_autapse_rejected_local(snode_id, tnode_id)
             THEN UNCHANGED <<connections, cursor, run>>
             ELSE /\ Emit(run, tid, <<Call(tid, snode_id, tnode_id, 0)>>)
                  /\ cursor' = value_advance(cursor, tid)

\* The edges the target loop of OneToOneBuilder::connect_ emits on thread tid
\* when it runs to its end.
OneToOne_target_loop_edges(tid) ==
  BagsOver([i \in DOMAIN targets_ |->
            IF \/ OneToOne_autapse_rejected(sources_[i], targets_[i])
               \/ is_proxy(targets_[i], tid)
            THEN EmptyBag
            ELSE single_connect_(sources_[i], targets_[i], tid)],
         DOMAIN targets_)

\* The pair of the iteration of thread tid: the source, the target, and
\* whether the iteration gets as far as single_connect_.
OneToOne_pair(tid) ==
  IF loop_over_targets_
  THEN LET snode_id == sources_[it[tid] + 1]
           tnode_id == targets_[it[tid] + 1]
       IN [src |-> snode_id, tgt |-> tnode_id,
           connects |-> /\ ~OneToOne_autapse_rejected(snode_id, tnode_id)
                        /\ ~is_proxy(tnode_id, tid)]
  ELSE LET tnode_id == get_local_nodes(tid)[it[tid] + 1]
           lid == get_lid(targets_, tnode_id)
           snode_id == IF lid < 0 THEN tnode_id ELSE sources_[lid + 1]
       IN [src |-> snode_id, tgt |-> tnode_id,
           connects |-> /\ lid >= 0
                        /\ ~OneToOne_autapse_rejected_local(snode_id, tnode_id)]

\* OneToOneBuilder::connect_, one iteration of the worker loop of thread tid;
\* an exception of single_connect_ ends the loop in the catch block.
OneToOne_connect_(tid) ==
  /\ rule = "one_to_one"
  /\ stage \in {"connect_", "replay"}
  /\ pc[tid] = "run"
  /\ LET pair == OneToOne_pair(tid)
     IN IF pair.connects /\ single_connect_throws(pair.tgt)
        THEN /\ exceptions_raised_' = Caught(tid, "IllegalConnection", pair.src, pair.tgt)
             /\ pc' = [pc EXCEPT ![tid] = "done"]
             /\ UNCHANGED <<it, connections, cursor, run>>
        ELSE /\ IF loop_over_targets_
                THEN OneToOne_target_loop(tid) ELSE OneToOne_local_loop(tid)
             /\ Advance(tid, LoopLen(tid, targets_, loop_over_targets_))
             /\ UNCHANGED exceptions_raised_
  /\ UNCHANGED <<cfgvars, thrown, synced_rng, sources_, targets_, stage, outcome,
                 z_connected, n_connect_, loc, m>>

\* ------------------------------------------------------------ AllToAll
AllToAll_connected_DropLast(tnode_id) ==
  {sources_[i] : i \in 1..(Len(sources_) - 1)}

\* The sources AllToAllBuilder::inner_connect_ connects to target tnode_id:
\* all of them, except the target itself when autapses are disabled.
AllToAll_connected(tnode_id) ==
  {s \in Range(sources_) : ~(~allow_autapses_ /\ s = tnode_id)}

\* AllToAllBuilder::inner_connect_( tid, rng, target, tnode_id, skip )
AllToAll_inner_connect_(tid, tnode_id, skip) ==
  IF tid # owner[tnode_id]
  THEN /\ cursor' = IF skip THEN skip_conn_parameter_(cursor, tid, Len(sources_)) ELSE cursor
       /\ UNCHANGED <<connections, run>>
  ELSE LET conn == AllToAll_connected(tnode_id)
           n_rejected == Cardinality(Range(sources_) \ conn)
           n_values == IF skipping THEN Cardinality(conn) ELSE 0
           at == SelectSeq([i \in DOMAIN sources_ |-> i], LAMBDA i : sources_[i] \in conn)
       IN /\ Emit(run, tid, [k \in DOMAIN at |->
                                Call(tid, sources_[at[k]], tnode_id,
                                     IF skip THEN at[k] - 1 ELSE k - 1)])
          /\ cursor' = IF skip
                       THEN skip_conn_parameter_([cursor EXCEPT ![tid] = @ + n_values],
                                                 tid, n_rejected)
                       ELSE [cursor EXCEPT ![tid] = @ + n_values]

\* The edges the target loop of AllToAllBuilder::connect_ emits on thread tid
\* when it runs to its end.
AllToAll_target_loop_edges(tid) ==
  BagsOver([i \in DOMAIN targets_ |->
            IF is_proxy(targets_[i], tid) \/ tid # owner[targets_[i]]
            THEN EmptyBag
            ELSE BagsOver([s \in AllToAll_connected(targets_[i]) |->
                           single_connect_(s, targets_[i], tid)],
                        AllToAll_connected(targets_[i]))],
         DOMAIN targets_)

\* AllToAllBuilder::connect_, one iteration of the worker loop of thread tid.
AllToAll_connect_(tid) ==
  /\ rule = "all_to_all"
  /\ stage = "connect_"
  /\ pc[tid] = "run"
  /\ IF loop_over_targets_
     THEN LET tnode_id == targets_[it[tid] + 1]
          IN IF is_proxy(tnode_id, tid)
             THEN /\ cursor' = skip_conn_parameter_(cursor, tid, Len(sources_))
                  /\ UNCHANGED <<connections, run>>
             ELSE AllToAll_inner_connect_(tid, tnode_id, TRUE)
     ELSE LET tnode_id == get_local_nodes(tid)[it[tid] + 1]
          IN IF get_lid(targets_, tnode_id) < 0
             THEN UNCHANGED <<connections, cursor, run>>
             ELSE AllToAll_inner_connect_(tid, tnode_id, FALSE)
  /\ Advance(tid, LoopLen(tid, targets_, loop_over_targets_))
  /\ UNCHANGED <<cfgvars, thrown, synced_rng, sources_, targets_, stage, outcome, z_connected,
                 exceptions_raised_, n_connect_, loc, m>>

\* ----------------------------------------------------------- Bernoulli
Bernoulli_rejected_Strict(drand, p) == drand > p

\* The acceptance test of BernoulliBuilder::inner_connect_: the pair is
\* skipped when rng->drand() >= p (both in units of 1/PDen).
Bernoulli_rejected(drand, p) == drand >= p

\* The outcomes of the source loop of BernoulliBuilder::inner_connect_ for
\* target tnode_id: the sets of source indices that are connected, one
\* uniform number in [0, 1) being drawn for every source that is no
\* rejected autapse.
Bernoulli_outcomes(tnode_id) ==
  LET cand == {i \in DOMAIN sources_ : ~(~allow_autapses_ /\ sources_[i] = tnode_id)}
  IN {conn \in SUBSET cand :
        \A i \in cand : \E drand \in 0..(PDen - 1) :
          (i \in conn) <=> ~Bernoulli_rejected(drand, conn_spec.p)}

\* BernoulliBuilder::inner_connect_( tid, rng, target, tnode_id )
Bernoulli_inner_connect_(tid, tnode_id) ==
  IF tid # owner[tnode_id]
  THEN UNCHANGED <<connections, cursor, run>>
  ELSE \E d \in draw(run, tid, Bernoulli_outcomes(tnode_id)) :
        LET conn == d.x
            at == SelectSeq([i \in DOMAIN sources_ |-> i], LAMBDA i : i \in conn)
        IN
          /\ Emit(d.run, tid, [k \in DOMAIN at |->
                                  Call(tid, sources_[at[k]], tnode_id, k - 1)])
          /\ cursor' = IF skipping THEN [cursor EXCEPT ![tid] = @ + Cardinality(conn)]
                       ELSE cursor

\* BernoulliBuilder::connect_, one iteration of the worker loop of thread tid.
Bernoulli_connect_(tid) ==
  /\ rule = "pairwise_bernoulli"
  /\ stage = "connect_"
  /\ pc[tid] = "run"
  /\ IF loop_over_targets_
     THEN LET tnode_id == targets_[it[tid] + 1]
          IN IF is_proxy(tnode_id, tid)
             THEN /\ cursor' = skip_conn_parameter_(cursor, tid, 1)
                  /\ UNCHANGED <<connections, run>>
             ELSE Bernoulli_inner_connect_(tid, tnode_id)
     ELSE LET tnode_id == get_local_nodes(tid)[it[tid] + 1]
          IN IF get_lid(targets_, tnode_id) < 0
             THEN UNCHANGED <<connections, cursor, run>>
             ELSE Bernoulli_inner_connect_(tid, tnode_id)
  /\ Advance(tid, LoopLen(tid, targets_, loop_over_targets_))
  /\ UNCHANGED <<cfgvars, thrown, synced_rng, sources_, targets_, stage, outcome, z_connected,
                 exceptions_raised_, n_connect_, loc, m>>

\* ------------------------------------------------------- FixedInDegree
FixedInDegree_skip_multapse_Never(s_id, ch_ids) == FALSE

\* The redraw tests of FixedInDegreeBuilder::inner_connect_.
FixedInDegree_skip_autapse(snode_id, tnode_id) ==
  ~allow_autapses_ /\ snode_id = tnode_id

FixedInDegree_skip_multapse(s_id, ch_ids) ==
  ~allow_multapses_ /\ s_id \in ch_ids

\* Leaving inner_connect_: the locals j and ch_ids go out of scope.
FixedInDegree_next_target(tid) ==
  /\ Advance(tid, LoopLen(tid, targets_, loop_over_targets_))
  /\ loc' = [loc EXCEPT ![tid] = NoLocals]

\* FixedInDegreeBuilder::inner_connect_: one draw s_id = rng->ulrand( n_rnd )
\* of the do-while loop, or the end of the for loop over j.
FixedInDegree_inner_connect_(tid, tnode_id, skip, indegree_value) ==
  IF tid # owner[tnode_id]
  THEN /\ cursor' = IF skip THEN skip_conn_parameter_(cursor, tid, indegree_value)
                    ELSE cursor
       /\ UNCHANGED <<connections, run>>
       /\ FixedInDegree_next_target(tid)
  ELSE IF loc[tid].j >= indegree_value
  THEN /\ UNCHANGED <<connections, cursor, run>>
       /\ FixedInDegree_next_target(tid)
  ELSE \E d \in draw(run, tid, 0..(Len(sources_) - 1)) :
         LET s_id == d.x
             snode_id == sources_[s_id + 1]
         IN IF \/ FixedInDegree_skip_autapse(snode_id, tnode_id)
               \/ FixedInDegree_skip_multapse(s_id, loc[tid].ch_ids)
            THEN /\ run' = d.run
                 /\ UNCHANGED <<connections, cursor, loc, it, pc>>
            ELSE /\ Emit(d.run, tid, <<Call(tid, snode_id, tnode_id, 0)>>)
                 /\ cursor' = value_advance(cursor, tid)
                 /\ IF loc[tid].j + 1 >= indegree_value
                    THEN FixedInDegree_next_target(tid)
                    ELSE /\ loc' = [loc EXCEPT ![tid] =
                                [j |-> @.j + 1,
                                 ch_ids |-> IF ~allow_multapses_
                                            THEN @.ch_ids \cup {s_id} ELSE @.ch_ids]]
                         /\ UNCHANGED <<it, pc>>

\* FixedInDegreeBuilder::connect_, one step of the worker loop of thread tid.
FixedInDegree_connect_(tid) ==
  /\ rule = "fixed_indegree"
  /\ stage = "connect_"
  /\ pc[tid] = "run"
  /\ IF loop_over_targets_
     THEN LET tnode_id == targets_[it[tid] + 1]
          IN IF is_proxy(tnode_id, tid)
             THEN /\ cursor' = skip_conn_parameter_(cursor, tid, conn_spec.indegree)
                  /\ UNCHANGED <<connections, run>>
                  /\ FixedInDegree_next_target(tid)
             ELSE FixedInDegree_inner_connect_(tid, tnode_id, TRUE, conn_spec.indegree)
     ELSE LET tnode_id == get_local_nodes(tid)[it[tid] + 1]
          IN IF get_lid(targets_, tnode_id) < 0
             THEN /\ UNCHANGED <<connections, cursor, run>>
                  /\ FixedInDegree_next_target(tid)
             ELSE FixedInDegree_inner_connect_(tid, tnode_id, FALSE, conn_spec.indegree)
  /\ UNCHANGED <<cfgvars, thrown, synced_rng, sources_, targets_, stage, outcome, z_connected,
                 exceptions_raised_, n_connect_, m>>

FixedInDegree_ctor_NoUpperBound(value, n_sources) ==
  IF n_sources = 0 \/ value < 0 THEN "BadProperty" ELSE "ok"

\* The checks of FixedInDegreeBuilder::FixedInDegreeBuilder on a scalar
\* indegree: "ok", or the exception thrown.
FixedInDegree_ctor(value, n_sources) ==
  IF n_sources = 0 THEN "BadProperty"
  ELSE IF ~allow_multapses_ /\ value > n_sources THEN "BadProperty"
  ELSE IF ~allow_multapses_ /\ value = n_sources /\ ~allow_autapses_ THEN "ok"
  ELSE IF value < 0 THEN "BadProperty"
  ELSE "ok"

\* ------------------------------------------------------- FixedOutDegree
FixedOutDegree_emits_Always(tnode_id, tid) == TRUE

\* The proxy test of the parallel region of FixedOutDegreeBuilder::connect_.
FixedOutDegree_emits(tnode_id, tid) == ~is_proxy(tnode_id, tid)

\* Locals of FixedOutDegreeBuilder::connect_: the position i of source_it, and
\* ch_ids and tgt_ids_ of the current source.  drawn collects the contents of
\* all tgt_ids_ vectors as a bag of (source, target) pairs.
FixedOutDegree_locals ==
  [i |-> 0, ch_ids |-> {}, tgt_ids_ |-> <<>>, drawn |-> EmptyBag]

\* FixedOutDegreeBuilder::connect_, calling thread: one draw
\* t_id = grng->ulrand( n_rnd ) for the current source or, the for loop over j
\* being complete, the entry into the parallel region.
FixedOutDegree_draw ==
  /\ rule = "fixed_outdegree"
  /\ stage = "sequential"
  /\ m.i < Len(sources_)
  /\ LET snode_id == sources_[m.i + 1]
     IN IF Len(m.tgt_ids_) >= conn_spec.outdegree
        THEN /\ stage' = "region"
             /\ StartRegion([tid \in Threads |-> Len(m.tgt_ids_)])
             /\ UNCHANGED <<m, run>>
        ELSE \E d \in draw(run, grng, 0..(Len(targets_) - 1)) :
               LET t_id == d.x
                   tnode_id == targets_[t_id + 1]
                   skip_autapse == ~allow_autapses_ /\ tnode_id = snode_id
                   skip_multapse == ~allow_multapses_ /\ t_id \in m.ch_ids
               IN IF skip_autapse \/ skip_multapse
                  THEN /\ run' = d.run
                       /\ UNCHANGED <<m, stage, pc, it>>
                  ELSE /\ run' = d.run
                       /\ m' = [m EXCEPT
                              !.ch_ids = IF ~allow_multapses_ THEN @ \cup {t_id} ELSE @,
                              !.tgt_ids_ = Append(@, tnode_id),
                              !.drawn = @ (+) SetToBag({[src |-> snode_id, tgt |-> tnode_id]})]
                       /\ UNCHANGED <<stage, pc, it>>
  /\ UNCHANGED <<cfgvars, thrown, synced_rng, sources_, targets_, outcome, cursor, connections,
                 z_connected, exceptions_raised_, n_connect_, loc>>

\* FixedOutDegreeBuilder::connect_, parallel region: thread tid handles one
\* entry of tgt_ids_.
FixedOutDegree_connect_(tid) ==
  /\ rule = "fixed_outdegree"
  /\ stage = "region"
  /\ pc[tid] = "run"
  /\ LET snode_id == sources_[m.i + 1]
         tnode_id == m.tgt_ids_[it[tid] + 1]
     IN IF FixedOutDegree_emits(tnode_id, tid) /\ single_connect_throws(tnode_id)
        THEN /\ exceptions_raised_' = Caught(tid, "IllegalConnection", snode_id, tnode_id)
             /\ pc' = [pc EXCEPT ![tid] = "done"]
             /\ UNCHANGED <<it, connections, cursor, run>>
        ELSE /\ IF FixedOutDegree_emits(tnode_id, tid)
                THEN /\ Emit(run, tid, <<Call(tid, snode_id, tnode_id, 0)>>)
                     /\ cursor' = value_advance(cursor, tid)
                ELSE /\ cursor' = skip_conn_parameter_(cursor, tid, 1)
                     /\ UNCHANGED <<connections, run>>
             /\ Advance(tid, Len(m.tgt_ids_))
             /\ UNCHANGED exceptions_raised_
  /\ UNCHANGED <<cfgvars, thrown, synced_rng, sources_, targets_, stage, outcome, z_connected,
                 n_connect_, loc, m>>

\* FixedOutDegreeBuilder::connect_, calling thread: the parallel region has
\* ended; ++source_it, and the end of connect_ after the last source.
FixedOutDegree_next_source ==
  /\ rule = "fixed_outdegree"
  /\ stage = "region"
  /\ \A tid \in Threads : pc[tid] = "done"
  /\ m' = [m EXCEPT !.i = @ + 1, !.ch_ids = {}, !.tgt_ids_ = <<>>]
  /\ stage' = IF m.i + 1 >= Len(sources_) THEN "connect_" ELSE "sequential"
  /\ UNCHANGED <<cfgvars, run, thrown, synced_rng, sources_, targets_, outcome, pc, it, cursor, connections,
                 z_connected, exceptions_raised_, n_connect_, loc>>

\* The checks of FixedOutDegreeBuilder::FixedOutDegreeBuilder on a scalar
\* outdegree: "ok", or the exception thrown.
FixedOutDegree_ctor(value, n_targets) ==
  IF n_targets = 0 THEN "BadProperty"
  ELSE IF ~allow_multapses_ /\ value > n_targets THEN "BadProperty"
  ELSE IF ~allow_multapses_ /\ value = n_targets /\ ~allow_autapses_ THEN "ok"
  ELSE IF value < 0 THEN "BadProperty"
  ELSE "ok"

\* ------------------------------------------------------ FixedTotalNumber
\* Connection counts are held in units of conn_spec.unit connections: "1", or
\* "2^30" for totals beyond the range of unsigned int, which spans UIntUnits
\* units of 2^30.
UIntUnits == 4

\* static_cast< unsigned int >( c ), and the wrap of unsigned int arithmetic.
\* Counts in single connections stay below 2^31 here.
UInt(c) == IF conn_spec.unit = "2^30" THEN c % UIntUnits ELSE c

\* kernel().vp_manager.node_id_to_vp( node_id )
node_id_to_vp(node_id) == owner[node_id]

\* number_of_targets_on_vp[ vp ]
number_of_targets_on_vp(vp) ==
  Cardinality({t \in Range(targets_) : node_id_to_vp(t) = vp})

thread_local_targets_All(vp_id) == targets_

\* thread_local_targets of the worker of vp_id, in target collection order
thread_local_targets(vp_id) ==
  SelectSeq(targets_, LAMBDA t : node_id_to_vp(t) = vp_id)

\* The values bino_dist( grng, param( n, num / den ) ) can return.
binomial_distribution(n, num, den) ==
  IF num = 0 THEN {0} ELSE IF num = den THEN {n} ELSE 0..n

\* Locals of FixedTotalNumberBuilder::connect_.
FixedTotalNumber_locals ==
  [k |-> 0, sum_dist |-> 0, sum_partitions |-> 0,
   num_conns_on_vp |-> [vp \in Threads |-> 0]]

\* p_local of iteration k, as numerator and denominator.
FixedTotalNumber_p_local(k, sum_dist) ==
  <<number_of_targets_on_vp(k), Len(targets_) - sum_dist>>

\* FixedTotalNumberBuilder::connect_, calling thread: one iteration of the
\* partition loop over the virtual processes or, at its end, the entry into
\* the parallel region.
FixedTotalNumber_partition ==
  /\ rule = "fixed_total_number"
  /\ stage = "sequential"
  /\ IF m.k >= NumThreads \/ conn_spec.N = m.sum_partitions
     THEN /\ stage' = "connect_"
          /\ pc' = [tid \in Threads |->
                      IF m.num_conns_on_vp[tid] > 0 THEN "run" ELSE "done"]
          /\ it' = [tid \in Threads |-> 0]
          /\ UNCHANGED <<m, run>>
     ELSE /\ \E d \in IF number_of_targets_on_vp(m.k) > 0
                      THEN LET p_local == FixedTotalNumber_p_local(m.k, m.sum_dist)
                           IN draw(run, grng,
                                   binomial_distribution(conn_spec.N - m.sum_partitions,
                                                         p_local[1], p_local[2]))
                      ELSE {[x |-> m.num_conns_on_vp[m.k], run |-> run]} :
             LET x == d.x IN
               /\ run' = d.run
               /\ m' = [k |-> m.k + 1,
                     sum_dist |-> m.sum_dist + number_of_targets_on_vp(m.k),
                     sum_partitions |-> UInt(m.sum_partitions + UInt(x)),
                     num_conns_on_vp |-> [m.num_conns_on_vp EXCEPT ![m.k] = x]]
          /\ UNCHANGED <<stage, pc, it>>
  /\ UNCHANGED <<cfgvars, thrown, synced_rng, sources_, targets_, outcome, cursor, connections,
                 z_connected, exceptions_raised_, n_connect_, loc>>

\* FixedTotalNumberBuilder::connect_, parallel region: one pass of the while
\* loop of the worker of virtual process tid.
FixedTotalNumber_connect_(tid) ==
  /\ rule = "fixed_total_number"
  /\ stage = "connect_"
  /\ pc[tid] = "run"
  /\ \E d1 \in draw(run, tid, 0..(Len(sources_) - 1)) :
     \E d2 \in draw(d1.run, tid, 0..(Len(thread_local_targets(tid)) - 1)) :
       LET s_index == d1.x
           t_index == d2.x
           snode_id == sources_[s_index + 1]
           tnode_id == thread_local_targets(tid)[t_index + 1]
           target_thread == owner[tnode_id]
       IN IF allow_autapses_ \/ snode_id # tnode_id
          THEN /\ Emit(d2.run, target_thread,
                       <<Call(target_thread, snode_id, tnode_id, 0)>>)
               /\ cursor' = value_advance(cursor, target_thread)
               /\ m' = [m EXCEPT !.num_conns_on_vp[tid] = @ - 1]
               /\ pc' = [pc EXCEPT ![tid] =
                           IF m.num_conns_on_vp[tid] - 1 > 0 THEN "run" ELSE "done"]
          ELSE /\ run' = d2.run
               /\ UNCHANGED <<connections, cursor, m, pc>>
  /\ UNCHANGED <<cfgvars, thrown, synced_rng, sources_, targets_, stage, outcome, it, z_connected,
                 exceptions_raised_, n_connect_, loc>>

FixedTotalNumber_ctor_WithSuppression(N_) ==
  IF ~allow_multapses_ /\ N_ > Len(sources_) * Len(targets_) THEN "BadProperty"
  ELSE IF N_ < 0 THEN "BadProperty"
  ELSE "ok"

\* The checks of FixedTotalNumberBuilder::FixedTotalNumberBuilder: "ok", or the
\* exception thrown.
FixedTotalNumber_ctor(N_) ==
  IF ~allow_multapses_ /\ N_ > Len(sources_) * Len(targets_) THEN "BadProperty"
  ELSE IF N_ < 0 THEN "BadProperty"
  ELSE IF ~allow_multapses_ THEN "NotImplemented"
  ELSE "ok"

\* ---------------------------------------------------- SymmetricBernoulli
\* Locals of the worker loop of SymmetricBernoulliBuilder::connect_ at the
\* start of a target iteration.
SymmetricBernoulli_locals ==
  [indegree |-> Len(sources_), i |-> 0, previous_snode_ids |-> {}]

\* SymmetricBernoulliBuilder::connect_, thread tid: one draw from synced_rng
\* with what follows it, or the step to the next target.
SymmetricBernoulli_connect_(tid) ==
  /\ rule = "symmetric_pairwise_bernoulli"
  /\ stage = "connect_"
  /\ pc[tid] = "run"
  /\ LET tnode_id == targets_[it[tid] + 1]
         l == loc[tid]
         n == Len(sources_)
     IN IF l.indegree >= n
        THEN /\ \E r \in rng_next(synced_rng, tid,
                                    binomial_classes(n, conn_spec.p, PDen)) :
                  /\ synced_rng' = rng_state(r)
                  /\ loc' = [loc EXCEPT ![tid].indegree =
                               binomial_sample(rng_value(r), n, conn_spec.p, PDen)]
             /\ UNCHANGED <<connections, cursor, it, pc>>
        ELSE IF l.i >= l.indegree
        THEN /\ Advance(tid, Len(targets_))
             /\ loc' = [loc EXCEPT ![tid] = SymmetricBernoulli_locals]
             /\ UNCHANGED <<connections, cursor, synced_rng>>
        ELSE \E r \in rng_next(synced_rng, tid, n) :
               LET snode_id == sources_[ulrand(rng_value(r), n) + 1]
               IN IF snode_id = tnode_id \/ snode_id \in l.previous_snode_ids
                  THEN /\ synced_rng' = rng_state(r)
                       /\ UNCHANGED <<connections, cursor, loc, it, pc>>
                  ELSE LET target_local == ~is_proxy(tnode_id, tid)
                           source_local == ~is_proxy(snode_id, tid)
                           calls == (IF target_local THEN 1 ELSE 0)
                                      + (IF source_local THEN 1 ELSE 0)
                       IN /\ connections' = connections
                               (+) (IF target_local
                                    THEN single_connect_(snode_id, tnode_id, tid)
                                    ELSE EmptyBag)
                               (+) (IF source_local
                                    THEN single_connect_(tnode_id, snode_id, tid)
                                    ELSE EmptyBag)
                          /\ \E r2 \in rng_consume(r, tid, calls * values_per_connect) :
                               synced_rng' = rng_state(r2)
                          /\ cursor' = IF skipping
                                       THEN [cursor EXCEPT ![tid] = @ + calls]
                                       ELSE cursor
                          /\ loc' = [loc EXCEPT ![tid].i = @ + 1,
                                                ![tid].previous_snode_ids = @ \cup {snode_id}]
                          /\ UNCHANGED <<it, pc>>
  /\ UNCHANGED <<cfgvars, run, thrown, sources_, targets_, stage, outcome, z_connected,
                 exceptions_raised_, n_connect_, m>>

\* The checks of SymmetricBernoulliBuilder::SymmetricBernoulliBuilder, p being
\* num / den: "ok", or the exception thrown.
SymmetricBernoulli_ctor(num, den) ==
  IF num < 0 \/ den <= num THEN "BadProperty"
  ELSE IF ~allow_multapses_ THEN "BadProperty"
  ELSE IF allow_autapses_ THEN "BadProperty"
  ELSE IF ~make_symmetric_ THEN "BadProperty"
  ELSE "ok"

\* -------------------------------------------- TripartiteBernoulliWithPool
get_first_pool_index_NoDivision(target_index) ==
  target_index * conn_spec.pool_size

\* TripartiteBernoulliWithPoolBuilder::get_first_pool_index_
get_first_pool_index_(target_index) ==
  IF conn_spec.pool_size > 1
  THEN target_index * conn_spec.pool_size
  ELSE target_index \div (Len(targets_) \div Len(third_))

\* std::copy_n( third_->begin() + first, n, ... ): the pools it can build.
\* Reading past the end of third_ is undefined and may deliver any node ids.
copy_n(first, n) ==
  IF first + n <= Len(third_)
  THEN {SubSeq(third_, first + 1, first + n)}
  ELSE [1..n -> Nodes]

AuxEdge_FirstThread(tid, builder, s, t, target) ==
  [thread |-> 0, syn |-> builder, src |-> s, tgt |-> t, for |-> target]

\* The edge an auxiliary builder emits through single_connect; target is the
\* target in whose iteration it is emitted.
AuxEdge(tid, builder, s, t, target) ==
  [thread |-> tid, syn |-> builder, src |-> s, tgt |-> t, for |-> target]

\* Locals of the worker loop of TripartiteBernoulliWithPoolBuilder::connect_
\* at the start of a target iteration.
Tripartite_locals ==
  [phase |-> "indegree", pool |-> <<>>, sources_to_connect_ |-> <<>>, j |-> 0]

\* Steps 1 and 2 of a target iteration and the sampling of the sources.
Tripartite_draw_indegree(tid) ==
  \E r1 \in rng_next(synced_rng, tid,
                      binomial_classes(Len(sources_), conn_spec.p_primary, PDen)) :
    LET indegree == binomial_sample(rng_value(r1), Len(sources_),
                                    conn_spec.p_primary, PDen)
    IN IF indegree = 0
       THEN /\ synced_rng' = rng_state(r1)
            /\ Advance(tid, Len(targets_))
            /\ UNCHANGED loc
       ELSE \E r2 \in IF conn_spec.random_pool
                      THEN rng_next(r1, tid, sample_classes(third_, conn_spec.pool_size))
                      ELSE {r1} :
            \E pool \in IF conn_spec.random_pool
                        THEN {sample(rng_value(r2), third_, conn_spec.pool_size)}
                        ELSE copy_n(get_first_pool_index_(it[tid]), conn_spec.pool_size) :
            \E r3 \in rng_next(r2, tid, sample_classes(sources_, indegree)) :
              /\ synced_rng' = rng_state(r3)
              /\ loc' = [loc EXCEPT ![tid] =
                           [phase |-> "sources", pool |-> pool,
                            sources_to_connect_ |->
                              sample(rng_value(r3), sources_, indegree),
                            j |-> 0]]
              /\ UNCHANGED <<it, pc>>

Tripartite_autapse_rejected_Never(snode_id, tnode_id) == FALSE

\* The autapse test of the loop over sources_to_connect_.
Tripartite_autapse_rejected(snode_id, tnode_id) ==
  ~allow_autapses_ /\ snode_id = tnode_id

\* Step 3 of a target iteration: one pass of the loop over
\* sources_to_connect_, which is not empty; the last pass ends the iteration.
Tripartite_connect_source(tid, tnode_id) ==
  LET l == loc[tid]
      local_target == ~is_proxy(tnode_id, tid)
      snode_id == l.sources_to_connect_[l.j + 1]
      primary == IF local_target
                 THEN single_connect_(snode_id, tnode_id, tid) ELSE EmptyBag
  IN         /\ IF l.j + 1 >= Len(l.sources_to_connect_)
                THEN /\ Advance(tid, Len(targets_))
                     /\ loc' = [loc EXCEPT ![tid] = Tripartite_locals]
                ELSE /\ loc' = [loc EXCEPT ![tid].j = @ + 1]
                     /\ UNCHANGED <<it, pc>>
             /\ IF Tripartite_autapse_rejected(snode_id, tnode_id)
                THEN UNCHANGED <<connections, cursor, synced_rng>>
                ELSE /\ cursor' = IF local_target THEN value_advance(cursor, tid) ELSE cursor
                     /\ \E r1 \in rng_next(synced_rng, tid,
                               drand_classes(conn_spec.p_third_if_primary, PDen)) :
                          IF ~drand_less(rng_value(r1), conn_spec.p_third_if_primary, PDen)
                          THEN /\ synced_rng' = rng_state(r1)
                               /\ connections' = connections (+) primary
                          ELSE \E r2 \in IF conn_spec.pool_size = 1
                                         THEN {r1}
                                         ELSE rng_next(r1, tid, conn_spec.pool_size) :
                                 LET third_index ==
                                       IF conn_spec.pool_size = 1 THEN 0
                                       ELSE ulrand(rng_value(r2), conn_spec.pool_size)
                                     third_node_id == l.pool[third_index + 1]
                                     local_third_node == ~is_proxy(third_node_id, tid)
                                 IN /\ synced_rng' = rng_state(r2)
                                    /\ connections' = connections (+) primary
                                         (+) (IF local_third_node
                                              THEN SetToBag({AuxEdge(tid, "third_in",
                                                     snode_id, third_node_id, tnode_id)})
                                              ELSE EmptyBag)
                                         (+) (IF local_target
                                              THEN SetToBag({AuxEdge(tid, "third_out",
                                                     third_node_id, tnode_id, tnode_id)})
                                              ELSE EmptyBag)

\* TripartiteBernoulliWithPoolBuilder::connect_, one step of thread tid.
Tripartite_connect_(tid) ==
  /\ rule = "tripartite_bernoulli_with_pool"
  /\ stage = "connect_"
  /\ pc[tid] = "run"
  /\ IF loc[tid].phase = "indegree"
     THEN /\ Tripartite_draw_indegree(tid)
          /\ UNCHANGED <<connections, cursor>>
     ELSE Tripartite_connect_source(tid, targets_[it[tid] + 1])
  /\ UNCHANGED <<cfgvars, run, thrown, sources_, targets_, stage, outcome, z_connected,
                 exceptions_raised_, n_connect_, m>>

\* The checks of
\* TripartiteBernoulliWithPoolBuilder::TripartiteBernoulliWithPoolBuilder, the
\* probabilities being multiples of 1 / den: "ok", or the exception thrown.
Tripartite_ctor(p_primary, p_third_if_primary, den, pool_size, random_pool) ==
  IF p_primary < 0 \/ den < p_primary THEN "BadProperty"
  ELSE IF p_third_if_primary < 0 \/ den < p_third_if_primary THEN "BadProperty"
  ELSE IF pool_size < 1 \/ Len(third_) < pool_size THEN "BadProperty"
  ELSE IF ~(\/ random_pool
            \/ Len(targets_) * pool_size = Len(third_)
            \/ (pool_size = 1 /\ Len(targets_) % Len(third_) = 0))
       THEN "BadProperty"
  ELSE "ok"

\* ------------------------------------------------ single_connect_ in detail
\* ConnBuilder::set_default_weight_or_delay_: the weight, the delay of synapse
\* spec k is the default of the model when syn_params does not hold it.
default_weight_(k) == ~conn_spec.syn_params[k].weight

default_delay_(k) == ~conn_spec.syn_params[k].delay

default_weight_and_delay_(k) == default_weight_(k) /\ default_delay_(k)

value_double_calls_WeightFirst(k) ==
  IF default_weight_and_delay_(k) THEN <<>>
  ELSE IF default_weight_(k) THEN <<"delay">>
  ELSE IF default_delay_(k) THEN <<"weight">>
  ELSE <<"weight", "delay">>

\* The value_double calls single_connect_ makes on delays_ and weights_ for
\* synapse spec k, in the order it makes them.
value_double_calls(k) ==
  IF default_weight_and_delay_(k) THEN <<>>
  ELSE IF default_weight_(k) THEN <<"delay">>
  ELSE IF default_delay_(k) THEN <<"weight">>
  ELSE <<"delay", "weight">>

\* The delay and the weight single_connect_ hands to
\* kernel().connection_manager.connect for synapse spec k: none, numerics::nan
\* or the value it got from value_double.
connect_arguments(k) ==
  IF default_weight_and_delay_(k) THEN [delay |-> "none", weight |-> "none"]
  ELSE IF default_weight_(k) THEN [delay |-> "value", weight |-> "none"]
  ELSE IF default_delay_(k) THEN [delay |-> "nan", weight |-> "value"]
  ELSE [delay |-> "value", weight |-> "value"]

\* What single_connect_ does for synapse spec k, in order: update_param_dict_
\* on the scratch dictionary of target_thread, the value_double calls, the
\* call of the connection storage.
single_connect_spec(snode_id, tnode_id, target_thread, k) ==
  <<[op |-> "update_param_dict_", syn |-> k, thread |-> target_thread]>>
  \o [i \in DOMAIN value_double_calls(k) |->
        [op |-> value_double_calls(k)[i], syn |-> k, thread |-> target_thread]]
  \o <<[op |-> "connect", syn |-> k, thread |-> target_thread,
         src |-> snode_id, tgt |-> tnode_id, args |-> connect_arguments(k)]>>

\* The loop of single_connect_ over the synapse specs from k on.
RECURSIVE single_connect_loop(_, _, _, _)
single_connect_loop(snode_id, tnode_id, target_thread, k) ==
  IF k > n_syn THEN <<>>
  ELSE single_connect_spec(snode_id, tnode_id, target_thread, k)
       \o single_connect_loop(snode_id, tnode_id, target_thread, k + 1)

\* One call single_connect_( snode_id, target, tid, rng ) by thread tid for a
\* target it holds; what the call did is kept in loc[tid].
single_connect_call(tid) ==
  /\ stage = "single_connect_"
  /\ pc[tid] = "run"
  /\ LET snode_id == sources_[1]
         tnode_id == targets_[tid + 1]
     IN IF single_connect_throws(tnode_id)
        THEN /\ exceptions_raised_' = Caught(tid, "IllegalConnection", snode_id, tnode_id)
             /\ UNCHANGED <<connections, cursor, loc>>
        ELSE /\ connections' = connections (+) single_connect_(snode_id, tnode_id, tid)
             /\ cursor' = value_advance(cursor, tid)
             /\ loc' = [loc EXCEPT ![tid] =
                          [done |-> single_connect_loop(snode_id, tnode_id, tid, 1)]]
             /\ UNCHANGED exceptions_raised_
  /\ pc' = [pc EXCEPT ![tid] = "done"]
  /\ UNCHANGED <<cfgvars, run, thrown, synced_rng, sources_, targets_, stage, outcome,
                 it, z_connected, n_connect_, m>>

\* ------------------------------------------------- structural plasticity
\* kernel().node_manager.is_local_node_id: the node is on this MPI process.
\* All threads of the model belong to one process.
is_local_node_id(node_id) == owner[node_id] \in Threads

change_connected_synaptic_elements_AnyThread(z, snode_id, tnode_id, tid, update) ==
  LET z1 == IF is_local_node_id(snode_id)
            THEN [z EXCEPT ![snode_id].pre = @ + update] ELSE z
  IN IF is_local_node_id(tnode_id) /\ tid = owner[tnode_id]
     THEN [z1 EXCEPT ![tnode_id].post = @ + update] ELSE z1

\* The counters after ConnBuilder::change_connected_synaptic_elements: the
\* pre-synaptic count of the source and the post-synaptic count of the target
\* change by update, each only on the thread that holds the node.
change_connected_synaptic_elements(z, snode_id, tnode_id, tid, update) ==
  LET z1 == IF is_local_node_id(snode_id) /\ tid = owner[snode_id]
            THEN [z EXCEPT ![snode_id].pre = @ + update] ELSE z
  IN IF is_local_node_id(tnode_id) /\ tid = owner[tnode_id]
     THEN [z1 EXCEPT ![tnode_id].post = @ + update] ELSE z1

\* The value ConnBuilder::change_connected_synaptic_elements returns: the
\* target is on this process and on thread tid.
change_connected_local(tnode_id, tid) ==
  is_local_node_id(tnode_id) /\ tid = owner[tnode_id]

\* One call change_connected_synaptic_elements( snode_id, tnode_id, tid,
\* update ) by thread tid, for the pair and the update that every thread of
\* the process is called with; the value returned is kept in loc[tid].
change_elements_call(tid) ==
  /\ stage = "change_elements"
  /\ pc[tid] = "run"
  /\ z_connected' = change_connected_synaptic_elements(
                      z_connected, sources_[1], targets_[1], tid, m.update)
  /\ loc' = [loc EXCEPT ![tid] = [local |-> change_connected_local(targets_[1], tid)]]
  /\ pc' = [pc EXCEPT ![tid] = "done"]
  /\ UNCHANGED <<cfgvars, run, thrown, synced_rng, sources_, targets_, stage, outcome,
                 it, cursor, connections, exceptions_raised_, n_connect_, m>>

\* single_disconnect_( snode_id, target, tid ): the connection of the first
\* synapse model is taken out of the storage of thread tid.  When there is no
\* such connection the storage either leaves it at that or throws.
single_disconnect_(conns, snode_id, tnode_id, tid) ==
  IF BagIn(Edge(tid, 1, snode_id, tnode_id), conns)
  THEN {[conns |-> conns (-) SetToBag({Edge(tid, 1, snode_id, tnode_id)}),
         thrown |-> FALSE]}
  ELSE {[conns |-> conns, thrown |-> FALSE], [conns |-> conns, thrown |-> TRUE]}

\* OneToOneBuilder::sp_connect_, one iteration of the loop of thread tid; an
\* exception of single_connect_ ends the loop in the catch block.
OneToOne_sp_connect_(tid) ==
  /\ rule = "one_to_one"
  /\ stage = "sp_connect_"
  /\ pc[tid] = "run"
  /\ LET snode_id == sources_[it[tid] + 1]
         tnode_id == targets_[it[tid] + 1]
     IN IF snode_id = tnode_id /\ ~allow_autapses_
        THEN /\ Advance(tid, Len(targets_))
             /\ UNCHANGED <<z_connected, connections, cursor, exceptions_raised_>>
        ELSE /\ z_connected' = change_connected_synaptic_elements(
                                 z_connected, snode_id, tnode_id, tid, 1)
             /\ IF ~change_connected_local(tnode_id, tid)
                THEN /\ cursor' = skip_conn_parameter_(cursor, tid, 1)
                     /\ Advance(tid, Len(targets_))
                     /\ UNCHANGED <<connections, exceptions_raised_>>
                ELSE IF single_connect_throws(tnode_id)
                THEN /\ exceptions_raised_' =
                          Caught(tid, "IllegalConnection", snode_id, tnode_id)
                     /\ pc' = [pc EXCEPT ![tid] = "done"]
                     /\ UNCHANGED <<it, connections, cursor>>
                ELSE /\ connections' = connections (+)
                                         single_connect_(snode_id, tnode_id, owner[tnode_id])
                     /\ cursor' = value_advance(cursor, tid)
                     /\ Advance(tid, Len(targets_))
                     /\ UNCHANGED exceptions_raised_
  /\ UNCHANGED <<cfgvars, run, thrown, synced_rng, sources_, targets_, stage, outcome,
                 n_connect_, loc, m>>

\* OneToOneBuilder::sp_disconnect_, one iteration of the loop of thread tid.
\* An exception of single_disconnect_ ends the loop in the catch block.
OneToOne_sp_disconnect_(tid) ==
  /\ rule = "one_to_one"
  /\ stage = "sp_disconnect_"
  /\ pc[tid] = "run"
  /\ LET snode_id == sources_[it[tid] + 1]
         tnode_id == targets_[it[tid] + 1]
     IN /\ z_connected' = change_connected_synaptic_elements(
                            z_connected, snode_id, tnode_id, tid, -1)
        /\ IF ~change_connected_local(tnode_id, tid)
           THEN /\ Advance(tid, Len(targets_))
                /\ UNCHANGED <<connections, exceptions_raised_>>
           ELSE \E r \in single_disconnect_(connections, snode_id, tnode_id,
                                            owner[tnode_id]) :
                  /\ connections' = r.conns
                  /\ IF r.thrown
                     THEN /\ exceptions_raised_' = Caught(tid, "std::exception", snode_id, tnode_id)
                          /\ pc' = [pc EXCEPT ![tid] = "done"]
                          /\ UNCHANGED it
                     ELSE /\ Advance(tid, Len(targets_))
                          /\ UNCHANGED exceptions_raised_
  /\ UNCHANGED <<cfgvars, run, thrown, synced_rng, sources_, targets_, stage, outcome, cursor,
                 n_connect_, loc, m>>

\* The end of one pass of the source loop inside the target loop of
\* AllToAllBuilder::sp_connect_ and sp_disconnect_ on thread tid.
AllToAll_sp_next_pair(tid) ==
  IF loc[tid].j + 1 >= Len(sources_)
  THEN /\ loc' = [loc EXCEPT ![tid].j = 0]
       /\ Advance(tid, Len(targets_))
  ELSE /\ loc' = [loc EXCEPT ![tid].j = @ + 1]
       /\ UNCHANGED <<it, pc>>

\* AllToAllBuilder::sp_connect_, one pass of the source loop of thread tid.
AllToAll_sp_connect_(tid) ==
  /\ rule = "all_to_all"
  /\ stage = "sp_connect_"
  /\ pc[tid] = "run"
  /\ LET tnode_id == targets_[it[tid] + 1]
         snode_id == sources_[loc[tid].j + 1]
     IN IF ~allow_autapses_ /\ snode_id = tnode_id
        THEN /\ cursor' = skip_conn_parameter_(cursor, tid, 1)
             /\ UNCHANGED <<z_connected, connections>>
        ELSE /\ z_connected' = change_connected_synaptic_elements(
                                 z_connected, snode_id, tnode_id, tid, 1)
             /\ IF ~change_connected_local(tnode_id, tid)
                THEN /\ cursor' = skip_conn_parameter_(cursor, tid, Len(sources_))
                     /\ UNCHANGED connections
                ELSE /\ connections' = connections (+)
                                         single_connect_(snode_id, tnode_id, owner[tnode_id])
                     /\ cursor' = value_advance(cursor, tid)
  /\ AllToAll_sp_next_pair(tid)
  /\ UNCHANGED <<cfgvars, run, thrown, synced_rng, sources_, targets_, stage, outcome,
                 exceptions_raised_, n_connect_, m>>

\* AllToAllBuilder::sp_disconnect_, one pass of the source loop of thread
\* tid.  An exception of single_disconnect_ ends both loops in the catch block.
AllToAll_sp_disconnect_(tid) ==
  /\ rule = "all_to_all"
  /\ stage = "sp_disconnect_"
  /\ pc[tid] = "run"
  /\ LET tnode_id == targets_[it[tid] + 1]
         snode_id == sources_[loc[tid].j + 1]
     IN /\ z_connected' = change_connected_synaptic_elements(
                            z_connected, snode_id, tnode_id, tid, -1)
        /\ IF ~change_connected_local(tnode_id, tid)
           THEN /\ AllToAll_sp_next_pair(tid)
                /\ UNCHANGED <<connections, exceptions_raised_>>
           ELSE \E r \in single_disconnect_(connections, snode_id, tnode_id,
                                            owner[tnode_id]) :
                  /\ connections' = r.conns
                  /\ IF r.thrown
                     THEN /\ exceptions_raised_' = Caught(tid, "std::exception", snode_id, tnode_id)
                          /\ pc' = [pc EXCEPT ![tid] = "done"]
                          /\ UNCHANGED <<it, loc>>
                     ELSE /\ AllToAll_sp_next_pair(tid)
                          /\ UNCHANGED exceptions_raised_
  /\ UNCHANGED <<cfgvars, run, thrown, synced_rng, sources_, targets_, stage, outcome, cursor,
                 n_connect_, m>>

\* ------------------------------------------------------------- SPBuilder
\* The arrays SPBuilder::sp_connect can be handed: node ids in any order, with
\* repetitions.  In the specifications of this rule sources_ and targets_ hold
\* the two arrays of the call.
NodeVectors == UNION {[1..n -> Nodes] : n \in 0..MaxDegree}

\* SPBuilder::sp_connect( sources, targets ) up to the parallel region of
\* connect_( sources, targets ).
SPBuilder_sp_connect ==
  /\ rule = "sp_builder"
  /\ stage = "idle"
  /\ IF Len(sources_) # Len(targets_)
     THEN /\ stage' = "returned"
          /\ outcome' = "DimensionMismatch"
          /\ UNCHANGED <<pc, it>>
     ELSE /\ stage' = "sp_connect_"
          /\ outcome' = "none"
          /\ StartRegion([tid \in Threads |-> Len(targets_)])
  /\ UNCHANGED <<cfgvars, run, thrown, synced_rng, sources_, targets_, cursor, connections,
                 z_connected, exceptions_raised_, n_connect_, loc, m>>

\* SPBuilder::connect_( sources, targets ), one iteration of the loop of
\* thread tid; an exception of single_connect_ ends the loop in the catch
\* block.
SPBuilder_connect_(tid) ==
  /\ rule = "sp_builder"
  /\ stage = "sp_connect_"
  /\ pc[tid] = "run"
  /\ LET snode_id == sources_[it[tid] + 1]
         tnode_id == targets_[it[tid] + 1]
     IN IF snode_id = tnode_id /\ ~allow_autapses_
        THEN /\ Advance(tid, Len(targets_))
             /\ UNCHANGED <<z_connected, connections, cursor, exceptions_raised_>>
        ELSE /\ z_connected' = change_connected_synaptic_elements(
                                 z_connected, snode_id, tnode_id, tid, 1)
             /\ IF ~change_connected_local(tnode_id, tid)
                THEN /\ cursor' = skip_conn_parameter_(cursor, tid, 1)
                     /\ Advance(tid, Len(targets_))
                     /\ UNCHANGED <<connections, exceptions_raised_>>
                ELSE IF single_connect_throws(tnode_id)
                THEN /\ exceptions_raised_' =
                          Caught(tid, "IllegalConnection", snode_id, tnode_id)
                     /\ pc' = [pc EXCEPT ![tid] = "done"]
                     /\ UNCHANGED <<it, connections, cursor>>
                ELSE /\ connections' = connections (+)
                                         single_connect_(snode_id, tnode_id, tid)
                     /\ cursor' = value_advance(cursor, tid)
                     /\ Advance(tid, Len(targets_))
                     /\ UNCHANGED exceptions_raised_
  /\ UNCHANGED <<cfgvars, run, thrown, synced_rng, sources_, targets_, stage, outcome,
                 n_connect_, loc, m>>

\* ------------------------------------------------------------ construction
set_structural_plasticity_parameters_Lenient(specs) ==
  IF \E k \in DOMAIN specs : specs[k].pre /\ specs[k].post THEN "sp" ELSE "plain"

\* ConnBuilder::set_structural_plasticity_parameters: the exception thrown,
\* "sp" when use_structural_plasticity_ is set, "plain" when it is left false.
set_structural_plasticity_parameters(specs) ==
  IF ~\E k \in DOMAIN specs : specs[k].pre \/ specs[k].post THEN "plain"
  ELSE IF Len(specs) > 1 THEN "KernelException"
  ELSE IF specs[1].pre # specs[1].post THEN "BadProperty"
  ELSE "sp"

\* The checks of OneToOneBuilder::OneToOneBuilder.
OneToOne_ctor ==
  IF Len(sources_) # Len(targets_) THEN "DimensionMismatch" ELSE "ok"

\* The checks of BernoulliBuilder::BernoulliBuilder on a scalar p = num / den.
Bernoulli_ctor(num, den) ==
  IF num < 0 \/ den < num THEN "BadProperty" ELSE "ok"

\* The checks of SPBuilder::SPBuilder, use being use_structural_plasticity_ as
\* the base constructor has set it.
SPBuilder_ctor(use) == IF ~use THEN "BadProperty" ELSE "ok"

\* The pool_type test of the constructor of the tripartite rule: the key is
\* absent, which leaves random_pool_ true, or one of the two known names.
Tripartite_pool_type_known == conn_spec.pool_type \in {"random", "block", "absent"}

\* The body of the constructor of the subclass, which runs after the base
\* constructor: "ok", or the exception thrown.
subclass_ctor(use) ==
  CASE rule = "one_to_one" -> OneToOne_ctor
    [] rule = "all_to_all" -> "ok"
    [] rule = "fixed_indegree" ->
         FixedInDegree_ctor(conn_spec.indegree, Len(sources_))
    [] rule = "fixed_outdegree" ->
         FixedOutDegree_ctor(conn_spec.outdegree, Len(targets_))
    [] rule = "fixed_total_number" -> FixedTotalNumber_ctor(conn_spec.N)
    [] rule = "pairwise_bernoulli" -> Bernoulli_ctor(conn_spec.p, PDen)
    [] rule = "symmetric_pairwise_bernoulli" ->
         SymmetricBernoulli_ctor(conn_spec.p, PDen)
    [] rule = "tripartite_bernoulli_with_pool" ->
         IF ~Tripartite_pool_type_known THEN "BadProperty"
         ELSE Tripartite_ctor(conn_spec.p_primary, conn_spec.p_third_if_primary,
                              PDen, conn_spec.pool_size, conn_spec.random_pool)
    [] rule = "sp_builder" -> SPBuilder_ctor(use)

\* The member initialisers of the subclass.  The tripartite rule computes
\* targets->size() / third->size(): with an empty third collection the
\* division is undefined, the build either ends there or goes on to the body.
initialisers_undefined ==
  rule = "tripartite_bernoulli_with_pool" /\ third_ = <<>>

\* Construction of the builder: ConnBuilder::ConnBuilder, then the constructor
\* of the subclass.  An exception leaves no builder behind.
Construct ==
  /\ stage = "unconstructed"
  /\ LET sp == set_structural_plasticity_parameters(syn_specs)
         use == sp = "sp"
         base_failed == sp \in {"KernelException", "BadProperty"}
     IN \E r \in IF base_failed THEN {sp}
                 ELSE IF initialisers_undefined THEN {"undefined", subclass_ctor(use)}
                 ELSE {subclass_ctor(use)} :
          /\ use_structural_plasticity_' = use
          /\ stage' = IF r = "ok" THEN "idle" ELSE "failed"
          /\ outcome' = IF r = "ok" THEN "none" ELSE r
  /\ UNCHANGED <<rule, allow_autapses_, allow_multapses_, make_symmetric_, skipping,
                 n_syn, conn_spec, owner, threads_per_rank, random_params, third_,
                 has_proxies, requires_symmetric, syn_specs>>
  /\ UNCHANGED <<thrown, synced_rng, sources_, targets_, pc, it, cursor, connections,
                 z_connected, exceptions_raised_, n_connect_, loc, m, run>>

\* ---------------------------------------------------- ConnBuilder::connect
\* ConnBuilder::connect() up to the first parallel region.
Connect ==
  /\ stage = "idle"
  /\ ~use_structural_plasticity_
  /\ IF connect_checks # "ok"
     THEN /\ stage' = "returned"
          /\ outcome' = connect_checks
          /\ UNCHANGED <<pc, it, n_connect_>>
     ELSE /\ stage' = IF starts_sequential
                         /\ ~(rule = "fixed_outdegree" /\ sources_ = <<>>)
                      THEN "sequential" ELSE "connect_"
          /\ outcome' = "none"
          /\ n_connect_' = 1
          /\ StartRegion([tid \in Threads |-> RegionLen(tid)])
  /\ UNCHANGED <<cfgvars, run, thrown, synced_rng, sources_, targets_, cursor, connections, z_connected,
                 exceptions_raised_, loc, m>>

ConnectReplay_NoReset ==
  /\ stage = "connect_"
  /\ \A tid \in Threads : pc[tid] = "done"
  /\ make_symmetric_ /\ ~creates_symmetric_connections_
  /\ sources_' = targets_
  /\ targets_' = sources_
  /\ stage' = "replay"
  /\ n_connect_' = n_connect_ + 1
  /\ LET over == Len(sources_) < NumNodes \/ ~is_range(sources_) \/ skipping
     IN StartRegion([tid \in Threads |-> LoopLen(tid, sources_, over)])
  /\ UNCHANGED <<cfgvars, run, thrown, synced_rng, outcome, connections, z_connected, exceptions_raised_,
                 loc, m, cursor>>

ConnectReplay_NoSwap ==
  /\ stage = "connect_"
  /\ \A tid \in Threads : pc[tid] = "done"
  /\ make_symmetric_ /\ ~creates_symmetric_connections_
  /\ cursor' = [tid \in Threads |-> 0]
  /\ UNCHANGED <<sources_, targets_>>
  /\ stage' = "replay"
  /\ n_connect_' = n_connect_ + 1
  /\ StartRegion([tid \in Threads |-> LoopLen(tid, targets_, loop_over_targets_)])
  /\ UNCHANGED <<cfgvars, run, thrown, synced_rng, outcome, connections, z_connected, exceptions_raised_,
                 loc, m>>

\* End of the forward connect_(): reset all parameters, swap, run again.
ConnectReplay ==
  /\ stage = "connect_"
  /\ \A tid \in Threads : pc[tid] = "done"
  /\ make_symmetric_ /\ ~creates_symmetric_connections_
  /\ cursor' = [tid \in Threads |-> 0]
  /\ sources_' = targets_
  /\ targets_' = sources_
  /\ stage' = "replay"
  /\ n_connect_' = n_connect_ + 1
  /\ LET over == Len(sources_) < NumNodes \/ ~is_range(sources_) \/ skipping
     IN StartRegion([tid \in Threads |-> LoopLen(tid, sources_, over)])
  /\ UNCHANGED <<cfgvars, run, thrown, synced_rng, outcome, connections, z_connected, exceptions_raised_,
                 loc, m>>

ConnectReturn_NoSwapBack ==
  /\ \A tid \in Threads : pc[tid] = "done"
  /\ \/ /\ stage = "connect_"
        /\ ~(make_symmetric_ /\ ~creates_symmetric_connections_)
     \/ stage = "replay"
  /\ stage' = "returned"
  /\ outcome' = Raised
  /\ thrown' = Rethrown
  /\ UNCHANGED <<cfgvars, run, synced_rng, sources_, targets_, pc, it, cursor, connections,
                 z_connected, exceptions_raised_, n_connect_, loc, m>>

\* End of connect(): swap back after a replay, then look at the slots.
ConnectReturn ==
  /\ \A tid \in Threads : pc[tid] = "done"
  /\ \/ /\ stage = "connect_"
        /\ ~(make_symmetric_ /\ ~creates_symmetric_connections_)
        /\ UNCHANGED <<sources_, targets_>>
     \/ /\ stage = "replay"
        /\ sources_' = targets_
        /\ targets_' = sources_
  /\ stage' = "returned"
  /\ outcome' = Raised
  /\ thrown' = Rethrown
  /\ UNCHANGED <<cfgvars, run, synced_rng, pc, it, cursor, connections, z_connected,
                 exceptions_raised_, n_connect_, loc, m>>

\* ConnBuilder::connect() of a builder in structural-plasticity mode, up to
\* the parallel region of sp_connect_.
Connect_sp ==
  /\ stage = "idle"
  /\ use_structural_plasticity_
  /\ rule \in {"one_to_one", "all_to_all"}
  /\ IF connect_checks # "ok"
     THEN /\ stage' = "returned"
          /\ outcome' = connect_checks
          /\ UNCHANGED <<pc, it>>
     ELSE /\ stage' = "sp_connect_"
          /\ outcome' = "none"
          /\ StartRegion([tid \in Threads |-> Len(targets_)])
  /\ UNCHANGED <<cfgvars, run, thrown, synced_rng, sources_, targets_, cursor, connections,
                 z_connected, exceptions_raised_, n_connect_, loc, m>>

\* End of connect() in structural-plasticity mode and of
\* SPBuilder::sp_connect(): look at the slots.
ConnectReturn_sp ==
  /\ stage = "sp_connect_"
  /\ \A tid \in Threads : pc[tid] = "done"
  /\ stage' = "returned"
  /\ outcome' = Raised
  /\ thrown' = Rethrown
  /\ UNCHANGED <<cfgvars, run, synced_rng, sources_, targets_, pc, it, cursor, connections,
                 z_connected, exceptions_raised_, n_connect_, loc, m>>

\* ConnBuilder::disconnect() of a builder in structural-plasticity mode whose
\* connect() has returned, up to the parallel region of sp_disconnect_.
Disconnect_sp ==
  /\ stage = "returned"
  /\ outcome = "ok"
  /\ use_structural_plasticity_
  /\ rule \in {"one_to_one", "all_to_all"}
  /\ stage' = "sp_disconnect_"
  /\ outcome' = "none"
  /\ StartRegion([tid \in Threads |-> Len(targets_)])
  /\ UNCHANGED <<cfgvars, run, thrown, synced_rng, sources_, targets_, cursor, connections,
                 z_connected, exceptions_raised_, n_connect_, loc, m>>

\* End of disconnect(): look at the slots.
DisconnectReturn ==
  /\ stage \in {"sp_disconnect_", "disconnect_"}
  /\ \A tid \in Threads : pc[tid] = "done"
  /\ stage' = "disconnected"
  /\ outcome' = Raised
  /\ thrown' = Rethrown
  /\ UNCHANGED <<cfgvars, run, synced_rng, sources_, targets_, pc, it, cursor, connections,
                 z_connected, exceptions_raised_, n_connect_, loc, m>>

\* ConnBuilder::disconnect() of a builder without structural plasticity, up
\* to the parallel region of disconnect_.  The builder is fresh or has been
\* through a connect() call, however that call ended.
Disconnect ==
  /\ stage \in {"idle", "returned"}
  /\ ~use_structural_plasticity_
  /\ rule = "one_to_one"
  /\ stage' = "disconnect_"
  /\ outcome' = "none"
  /\ StartRegion([tid \in Threads |-> Len(targets_)])
  /\ UNCHANGED <<cfgvars, run, thrown, synced_rng, sources_, targets_, cursor, connections,
                 z_connected, exceptions_raised_, n_connect_, loc, m>>

\* The calls of single_disconnect_ a thread has issued, in order: none yet.
OneToOne_disconnect_locals == [calls |-> <<>>]

OneToOne_disconnect_skips_Never(tnode_id, tid) == FALSE

\* The two tests of the loop of OneToOneBuilder::disconnect_ that end an
\* iteration without a removal.
OneToOne_disconnect_skips(tnode_id, tid) ==
  ~is_local_node_id(tnode_id) \/ is_proxy(tnode_id, tid)

\* OneToOneBuilder::disconnect_, one iteration of the loop of thread tid.  An
\* exception of single_disconnect_ ends the loop in the catch block.
OneToOne_disconnect_(tid) ==
  /\ rule = "one_to_one"
  /\ stage = "disconnect_"
  /\ pc[tid] = "run"
  /\ LET snode_id == sources_[it[tid] + 1]
         tnode_id == targets_[it[tid] + 1]
         target_thread == owner[tnode_id]
     IN IF OneToOne_disconnect_skips(tnode_id, tid)
        THEN /\ Advance(tid, Len(targets_))
             /\ UNCHANGED <<connections, exceptions_raised_, loc>>
        ELSE \E r \in single_disconnect_(connections, snode_id, tnode_id, target_thread) :
               /\ connections' = r.conns
               /\ loc' = [loc EXCEPT ![tid].calls =
                            Append(@, [src |-> snode_id, tgt |-> tnode_id,
                                       thread |-> target_thread])]
               /\ IF r.thrown
                  THEN /\ exceptions_raised_' = Caught(tid, "std::exception", snode_id, tnode_id)
                       /\ pc' = [pc EXCEPT ![tid] = "done"]
                       /\ UNCHANGED it
                  ELSE /\ Advance(tid, Len(targets_))
                       /\ UNCHANGED exceptions_raised_
  /\ UNCHANGED <<cfgvars, run, thrown, synced_rng, sources_, targets_, stage, outcome, cursor,
                 z_connected, n_connect_, m>>

\* ------------------------------------------------------- specifications
\* The state after construction that all rules share.  Nodes of neither
\* collection are never looked up by a rule; they are placed on thread 0.
InitState ==
  /\ owner \in [Nodes -> Threads]
  /\ \A n \in Nodes \ (Range(sources_) \cup Range(targets_) \cup Range(third_)) :
       owner[n] = 0
  /\ threads_per_rank = NumThreads
  /\ outcome = "none"
  /\ pc = [tid \in Threads |-> "idle"]
  /\ it = [tid \in Threads |-> 0]
  /\ cursor = [tid \in Threads |-> 0]
  /\ connections = EmptyBag
  /\ z_connected = [n \in Nodes |-> [pre |-> 0, post |-> 0]]
  /\ exceptions_raised_ = [tid \in Threads |-> <<>>]
  /\ thrown = <<>>
  /\ n_connect_ = 0

\* The state after a construction that succeeded: the synapse specs are the
\* ones that leave the builder in the mode it is in.
InitCommon ==
  /\ run = FreeRun
  /\ syn_specs = [k \in 1..n_syn |-> [pre |-> use_structural_plasticity_,
                                      post |-> use_structural_plasticity_]]
  /\ stage = "idle"
  /\ InitState

InitOneToOne ==
  /\ rule = "one_to_one"
  /\ conn_spec = [rule |-> "one_to_one"]
  /\ allow_multapses_ = TRUE
  /\ sources_ \in NodeCollections
  /\ targets_ \in NodeCollections
  /\ Len(sources_) = Len(targets_)
  /\ allow_autapses_ \in BOOLEAN
  /\ make_symmetric_ \in BOOLEAN
  /\ skipping \in BOOLEAN
  /\ m = NoLocals
  /\ loc = [tid \in Threads |-> NoLocals]
  /\ n_syn = NumSynSpecs
  /\ random_params = FALSE
  /\ third_ = <<>>
  /\ synced_rng = NoDraws
  /\ use_structural_plasticity_ = FALSE
  /\ has_proxies = [n \in Nodes |-> TRUE]
  /\ requires_symmetric = FALSE
  /\ InitCommon

NextOneToOne ==
  \/ Connect
  \/ \E tid \in Threads : OneToOne_connect_(tid)
  \/ ConnectReplay
  \/ ConnectReturn

SpecOneToOne == InitOneToOne /\ [][NextOneToOne]_vars

InitAllToAll ==
  /\ rule = "all_to_all"
  /\ conn_spec = [rule |-> "all_to_all"]
  /\ allow_multapses_ = TRUE
  /\ sources_ \in NodeCollections
  /\ targets_ \in NodeCollections
  /\ allow_autapses_ \in BOOLEAN
  /\ make_symmetric_ \in BOOLEAN
  /\ skipping \in BOOLEAN
  /\ m = NoLocals
  /\ loc = [tid \in Threads |-> NoLocals]
  /\ n_syn = NumSynSpecs
  /\ random_params = FALSE
  /\ third_ = <<>>
  /\ synced_rng = NoDraws
  /\ use_structural_plasticity_ = FALSE
  /\ has_proxies = [n \in Nodes |-> TRUE]
  /\ requires_symmetric = FALSE
  /\ InitCommon

NextAllToAll ==
  \/ Connect
  \/ \E tid \in Threads : AllToAll_connect_(tid)
  \/ ConnectReturn

SpecAllToAll == InitAllToAll /\ [][NextAllToAll]_vars

\* BernoulliBuilder::BernoulliBuilder accepts a scalar p with 0 <= p <= 1.
\* Probabilities strictly between 0 and 1 are explored on populations of at
\* most NumNodes (source, target) pairs.
InitBernoulli ==
  /\ rule = "pairwise_bernoulli"
  /\ conn_spec \in [rule : {"pairwise_bernoulli"}, p : 0..PDen]
  /\ sources_ \in NodeCollections
  /\ targets_ \in NodeCollections
  /\ conn_spec.p \in {0, PDen} \/ Len(sources_) * Len(targets_) <= NumNodes
  /\ allow_multapses_ = TRUE
  /\ allow_autapses_ \in BOOLEAN
  /\ make_symmetric_ = FALSE
  /\ skipping \in BOOLEAN
  /\ m = NoLocals
  /\ loc = [tid \in Threads |-> NoLocals]
  /\ n_syn = NumSynSpecs
  /\ random_params = FALSE
  /\ third_ = <<>>
  /\ synced_rng = NoDraws
  /\ use_structural_plasticity_ = FALSE
  /\ has_proxies = [n \in Nodes |-> TRUE]
  /\ requires_symmetric = FALSE
  /\ InitCommon

NextBernoulli ==
  \/ Connect
  \/ \E tid \in Threads : Bernoulli_connect_(tid)
  \/ ConnectReturn

SpecBernoulli == InitBernoulli /\ [][NextBernoulli]_vars

InitFixedInDegree ==
  /\ rule = "fixed_indegree"
  /\ conn_spec \in [rule : {"fixed_indegree"}, indegree : 0..MaxDegree]
  /\ sources_ \in NodeCollections
  /\ targets_ \in NodeCollections
  /\ allow_autapses_ \in BOOLEAN
  /\ make_symmetric_ = FALSE
  /\ skipping \in BOOLEAN
  /\ allow_multapses_ \in BOOLEAN
  /\ m = NoLocals
  /\ loc = [tid \in Threads |-> NoLocals]
  /\ n_syn = NumSynSpecs
  /\ random_params = FALSE
  /\ third_ = <<>>
  /\ synced_rng = NoDraws
  /\ use_structural_plasticity_ = FALSE
  /\ has_proxies = [n \in Nodes |-> TRUE]
  /\ requires_symmetric = FALSE
  /\ InitCommon
  /\ FixedInDegree_ctor(conn_spec.indegree, Len(sources_)) = "ok"
     \* the total number of accepted draws is kept small, and the threads
     \* being interchangeable under this rule, the first target is on thread 0
  /\ conn_spec.indegree * Len(targets_)
       <= (IF allow_multapses_ THEN NumNodes - 1 ELSE NumNodes + 1)
  /\ owner[targets_[1]] = 0

NextFixedInDegree ==
  \/ Connect
  \/ \E tid \in Threads : FixedInDegree_connect_(tid)
  \/ ConnectReturn

SpecFixedInDegree == InitFixedInDegree /\ [][NextFixedInDegree]_vars

\* The rule never asks where a source lives, so nodes that are no target are
\* placed on thread 0.  The number of draws times the number of candidates per
\* draw is less than 2 * NumNodes.
InitFixedOutDegree ==
  /\ rule = "fixed_outdegree"
  /\ conn_spec \in [rule : {"fixed_outdegree"}, outdegree : 0..MaxDegree]
  /\ sources_ \in NodeCollections
  /\ targets_ \in NodeCollections
  /\ allow_autapses_ \in BOOLEAN
  /\ make_symmetric_ = FALSE
  /\ skipping \in BOOLEAN
  /\ allow_multapses_ \in BOOLEAN
  /\ m = FixedOutDegree_locals
  /\ loc = [tid \in Threads |-> NoLocals]
  /\ n_syn = NumSynSpecs
  /\ random_params = FALSE
  /\ third_ = <<>>
  /\ synced_rng = NoDraws
  /\ use_structural_plasticity_ = FALSE
  /\ has_proxies = [n \in Nodes |-> TRUE]
  /\ requires_symmetric = FALSE
  /\ InitCommon
  /\ FixedOutDegree_ctor(conn_spec.outdegree, Len(targets_)) = "ok"
  /\ \A n \in Nodes \ Range(targets_) : owner[n] = 0
  /\ conn_spec.outdegree * Len(sources_) * Len(targets_) < 2 * NumNodes

NextFixedOutDegree ==
  \/ Connect
  \/ FixedOutDegree_draw
  \/ \E tid \in Threads : FixedOutDegree_connect_(tid)
  \/ FixedOutDegree_next_source
  \/ ConnectReturn

SpecFixedOutDegree == InitFixedOutDegree /\ [][NextFixedOutDegree]_vars

\* The rule never asks where a node that is no target lives.
InitFixedTotalNumber ==
  /\ rule = "fixed_total_number"
  /\ conn_spec \in [rule : {"fixed_total_number"}, N : 0..MaxN, unit : {"1"}]
  /\ sources_ \in NodeCollections
  /\ targets_ \in NodeCollections
  /\ allow_autapses_ \in BOOLEAN
  /\ allow_multapses_ \in BOOLEAN
  /\ make_symmetric_ = FALSE
  /\ skipping \in BOOLEAN
  /\ m = FixedTotalNumber_locals
  /\ loc = [tid \in Threads |-> NoLocals]
  /\ n_syn = NumSynSpecs
  /\ random_params = FALSE
  /\ third_ = <<>>
  /\ synced_rng = NoDraws
  /\ use_structural_plasticity_ = FALSE
  /\ has_proxies = [n \in Nodes |-> TRUE]
  /\ requires_symmetric = FALSE
  /\ InitCommon
  /\ \A n \in Nodes \ Range(targets_) : owner[n] = 0
  /\ FixedTotalNumber_ctor(conn_spec.N) = "ok"

NextFixedTotalNumber ==
  \/ Connect
  \/ FixedTotalNumber_partition
  \/ \E tid \in Threads : FixedTotalNumber_connect_(tid)
  \/ ConnectReturn

SpecFixedTotalNumber == InitFixedTotalNumber /\ [][NextFixedTotalNumber]_vars

\* Totals in units of 2^30 connections.  The parallel region, 2^30 passes of
\* the while loop per unit, lies beyond what is explored: the behaviours end
\* where the region is entered.
InitFixedTotalNumberLarge ==
  /\ rule = "fixed_total_number"
  /\ conn_spec \in [rule : {"fixed_total_number"}, N : 0..MaxUnits, unit : {"2^30"}]
  /\ sources_ \in NodeCollections
  /\ targets_ \in NodeCollections
  /\ allow_autapses_ \in BOOLEAN
  /\ allow_multapses_ \in BOOLEAN
  /\ make_symmetric_ = FALSE
  /\ skipping \in BOOLEAN
  /\ m = FixedTotalNumber_locals
  /\ loc = [tid \in Threads |-> NoLocals]
  /\ n_syn = NumSynSpecs
  /\ random_params = FALSE
  /\ third_ = <<>>
  /\ synced_rng = NoDraws
  /\ use_structural_plasticity_ = FALSE
  /\ has_proxies = [n \in Nodes |-> TRUE]
  /\ requires_symmetric = FALSE
  /\ InitCommon
  /\ \A n \in Nodes \ Range(targets_) : owner[n] = 0
  /\ FixedTotalNumber_ctor(conn_spec.N) = "ok"

NextFixedTotalNumberLarge ==
  \/ Connect
  \/ FixedTotalNumber_partition

SpecFixedTotalNumberLarge ==
  InitFixedTotalNumberLarge /\ [][NextFixedTotalNumberLarge]_vars

\* One synapse specification; its parameters are constants or, with
\* random_params, drawn from a distribution, and none is an array.  There are
\* at most NumNodes + 1 (source, target) pairs.
InitSymmetricBernoulli ==
  /\ rule = "symmetric_pairwise_bernoulli"
  /\ conn_spec \in [rule : {"symmetric_pairwise_bernoulli"}, p : 0..PDen]
  /\ sources_ \in NodeCollections
  /\ targets_ \in NodeCollections
  /\ allow_autapses_ \in BOOLEAN
  /\ allow_multapses_ \in BOOLEAN
  /\ make_symmetric_ \in BOOLEAN
  /\ skipping = FALSE
  /\ m = NoLocals
  /\ loc = [tid \in Threads |-> SymmetricBernoulli_locals]
  /\ n_syn = 1
  /\ random_params \in BOOLEAN
  /\ third_ = <<>>
  /\ synced_rng = NoDraws
  /\ use_structural_plasticity_ = FALSE
  /\ has_proxies = [n \in Nodes |-> TRUE]
  /\ requires_symmetric = FALSE
  /\ InitCommon
  /\ SymmetricBernoulli_ctor(conn_spec.p, PDen) = "ok"
  /\ Len(sources_) * Len(targets_) <= NumNodes + 1

NextSymmetricBernoulli ==
  \/ Connect
  \/ \E tid \in Threads : SymmetricBernoulli_connect_(tid)
  \/ ConnectReturn

SpecSymmetricBernoulli == InitSymmetricBernoulli /\ [][NextSymmetricBernoulli]_vars

\* One synapse specification per builder, with constant parameters, and one
\* source.  What the rule never looks at is fixed: autapses are allowed when
\* the source is no target, and nodes in no collection are on thread 0.  Of
\* the configurations that differ only in the names of nodes or of threads
\* one is kept: the nodes in use are 1..k, and a node is on thread 0 or on a
\* thread that follows the thread of a smaller target or third-factor node.
\* At least one probability is 1, the third-factor population has at most
\* MaxDegree nodes, and random pools are explored for a single target.
InitTripartite ==
  /\ rule = "tripartite_bernoulli_with_pool"
  /\ sources_ \in NodeCollections
  /\ Len(sources_) = 1
  /\ targets_ \in NodeCollections
  /\ Len(targets_) < NumNodes
  /\ third_ \in NodeCollections
  /\ Len(third_) <= MaxDegree
  /\ \E k \in Nodes : Range(sources_) \cup Range(targets_) \cup Range(third_) = 1..k
  /\ conn_spec \in [rule : {"tripartite_bernoulli_with_pool"},
                    p_primary : 0..PDen, p_third_if_primary : 0..PDen,
                    pool_size : 0..NumNodes, random_pool : BOOLEAN,
                    pool_type : {"random", "block"}]
  /\ conn_spec.random_pool = (conn_spec.pool_type = "random")
  /\ Tripartite_ctor(conn_spec.p_primary, conn_spec.p_third_if_primary, PDen,
                     conn_spec.pool_size, conn_spec.random_pool) = "ok"
  /\ conn_spec.p_primary = PDen \/ conn_spec.p_third_if_primary = PDen
  /\ conn_spec.random_pool => Len(targets_) = 1
  /\ allow_autapses_ \in BOOLEAN
  /\ Range(sources_) \cap Range(targets_) = {} => allow_autapses_
  /\ allow_multapses_ = TRUE
  /\ make_symmetric_ = FALSE
  /\ skipping = FALSE
  /\ m = NoLocals
  /\ loc = [tid \in Threads |-> Tripartite_locals]
  /\ n_syn = 1
  /\ random_params = FALSE
  /\ synced_rng = NoDraws
  /\ use_structural_plasticity_ = FALSE
  /\ has_proxies = [n \in Nodes |-> TRUE]
  /\ requires_symmetric = FALSE
  /\ InitCommon
  /\ \A n \in Nodes :
       owner[n] <= Cardinality({k \in Range(targets_) \cup Range(third_) : k < n})

NextTripartite ==
  \/ Connect
  \/ \E tid \in Threads : Tripartite_connect_(tid)
  \/ ConnectReturn

SpecTripartite == InitTripartite /\ [][NextTripartite]_vars


\* AllToAll, FixedInDegree and FixedOutDegree builders with an array-indexed
\* synapse parameter, which puts all three in the target-loop regime.
InitArrayParameters ==
  /\ \/ InitAllToAll
     \/ InitFixedInDegree
     \/ InitFixedOutDegree
  /\ skipping

NextArrayParameters ==
  \/ Connect
  \/ \E tid \in Threads : AllToAll_connect_(tid)
  \/ \E tid \in Threads : FixedInDegree_connect_(tid)
  \/ FixedOutDegree_draw
  \/ \E tid \in Threads : FixedOutDegree_connect_(tid)
  \/ FixedOutDegree_next_source
  \/ ConnectReturn

SpecArrayParameters == InitArrayParameters /\ [][NextArrayParameters]_vars

\* OneToOne and AllToAll builders in structural-plasticity mode: one synapse
\* specification with constant parameters; connect(), then disconnect().
InitStructuralPlasticity ==
  /\ rule \in {"one_to_one", "all_to_all"}
  /\ conn_spec = [rule |-> rule]
  /\ allow_multapses_ = TRUE
  /\ sources_ \in NodeCollections
  /\ targets_ \in NodeCollections
  /\ rule = "one_to_one" => Len(sources_) = Len(targets_)
  /\ allow_autapses_ \in BOOLEAN
  /\ make_symmetric_ \in BOOLEAN
  /\ skipping \in BOOLEAN
  /\ m = NoLocals
  /\ loc = [tid \in Threads |-> NoLocals]
  /\ n_syn = 1
  /\ random_params = FALSE
  /\ third_ = <<>>
  /\ synced_rng = NoDraws
  /\ use_structural_plasticity_ = TRUE
  /\ has_proxies = [n \in Nodes |-> TRUE]
  /\ requires_symmetric = FALSE
  /\ InitCommon

NextStructuralPlasticity ==
  \/ Connect_sp
  \/ \E tid \in Threads : OneToOne_sp_connect_(tid)
  \/ \E tid \in Threads : AllToAll_sp_connect_(tid)
  \/ ConnectReturn_sp
  \/ Disconnect_sp
  \/ \E tid \in Threads : OneToOne_sp_disconnect_(tid)
  \/ \E tid \in Threads : AllToAll_sp_disconnect_(tid)
  \/ DisconnectReturn

SpecStructuralPlasticity ==
  InitStructuralPlasticity /\ [][NextStructuralPlasticity]_vars

\* ------------------------------------------------------ claim helpers
AllDone == \A tid \in Threads : pc[tid] = "done"

\* Number of edges src -> tgt of synapse specification k, over all threads.
Emitted(k, s, t) == SumOver([tid \in Threads |-> Mult(connections, Edge(tid, k, s, t))], Threads)

\* Number of edges src -> tgt of synapse specification k emitted by threads
\* other than the owner of tgt.
EmittedByOthers(k, s, t) ==
  SumOver([tid \in Threads |-> Mult(connections, Edge(tid, k, s, t))], Threads \ {owner[t]})

WellFormedEdges ==
  \A e \in DOMAIN connections :
    e.thread \in Threads /\ e.syn \in 1..n_syn /\ e.src \in Nodes /\ e.tgt \in Nodes

\* Whether index pair (srcs[i], tgts[i]) = (s, t) exists.
Paired(srcs, tgts, s, t) == \E i \in DOMAIN srcs : srcs[i] = s /\ tgts[i] = t


\* Builders whose workers can fail: OneToOne in plain and in
\* structural-plasticity mode and SPBuilder, with one synapse specification,
\* constant parameters and targets that may be nodes without proxies.  The
\* threads being interchangeable, a node is on thread 0 or on a thread that
\* follows the thread of a smaller node in use; the arrays of SPBuilder list
\* their pairs in the order of the targets, and arrays of different lengths
\* are represented by an empty source array.
InitExceptions ==
  /\ rule \in {"one_to_one", "sp_builder"}
  /\ conn_spec = [rule |-> rule]
  /\ allow_multapses_ = TRUE
  /\ sources_ \in IF rule = "sp_builder" THEN NodeVectors ELSE NodeCollections
  /\ targets_ \in IF rule = "sp_builder" THEN NodeVectors ELSE NodeCollections
  /\ rule = "one_to_one" => Len(sources_) = Len(targets_)
  /\ allow_autapses_ \in BOOLEAN
  /\ use_structural_plasticity_ \in BOOLEAN
  /\ rule = "sp_builder" => use_structural_plasticity_
  /\ make_symmetric_ \in BOOLEAN
  /\ make_symmetric_ => ~use_structural_plasticity_
  /\ skipping = FALSE
  /\ m = NoLocals
  /\ loc = [tid \in Threads |-> NoLocals]
  /\ n_syn = 1
  /\ random_params = FALSE
  /\ third_ = <<>>
  /\ synced_rng = NoDraws
  /\ rule = "sp_builder" =>
       /\ Len(sources_) # Len(targets_) => sources_ = <<>>
       /\ \A i \in 1..(Len(targets_) - 1) : targets_[i] <= targets_[i + 1]
  /\ has_proxies \in [Nodes -> BOOLEAN]
  /\ \A n \in Nodes \ Range(targets_) : has_proxies[n]
  /\ requires_symmetric = FALSE
  /\ InitCommon
  /\ \A n \in Nodes :
       owner[n] <= Cardinality({k \in Range(sources_) \cup Range(targets_) : k < n})

NextExceptions ==
  \/ Connect
  \/ \E tid \in Threads : OneToOne_connect_(tid)
  \/ ConnectReplay
  \/ ConnectReturn
  \/ Connect_sp
  \/ \E tid \in Threads : OneToOne_sp_connect_(tid)
  \/ SPBuilder_sp_connect
  \/ \E tid \in Threads : SPBuilder_connect_(tid)
  \/ ConnectReturn_sp
  \/ Disconnect_sp
  \/ \E tid \in Threads : OneToOne_sp_disconnect_(tid)
  \/ DisconnectReturn

SpecExceptions == InitExceptions /\ [][NextExceptions]_vars


\* OneToOne and AllToAll builders in plain and in structural-plasticity mode,
\* with one synapse specification whose model may require symmetric
\* connections: connect().
InitConnectChecks ==
  /\ rule \in {"one_to_one", "all_to_all"}
  /\ conn_spec = [rule |-> rule]
  /\ allow_multapses_ = TRUE
  /\ sources_ \in NodeCollections
  /\ targets_ \in NodeCollections
  /\ rule = "one_to_one" => Len(sources_) = Len(targets_)
  /\ allow_autapses_ \in BOOLEAN
  /\ use_structural_plasticity_ \in BOOLEAN
  /\ make_symmetric_ \in BOOLEAN
  /\ skipping \in BOOLEAN
  /\ m = NoLocals
  /\ loc = [tid \in Threads |-> NoLocals]
  /\ n_syn = 1
  /\ random_params = FALSE
  /\ third_ = <<>>
  /\ synced_rng = NoDraws
  /\ has_proxies = [n \in Nodes |-> TRUE]
  /\ requires_symmetric \in BOOLEAN
  /\ InitCommon
  /\ owner[targets_[1]] = 0

NextConnectChecks ==
  \/ Connect
  \/ \E tid \in Threads : OneToOne_connect_(tid)
  \/ \E tid \in Threads : AllToAll_connect_(tid)
  \/ ConnectReplay
  \/ ConnectReturn
  \/ Connect_sp
  \/ \E tid \in Threads : OneToOne_sp_connect_(tid)
  \/ \E tid \in Threads : AllToAll_sp_connect_(tid)
  \/ ConnectReturn_sp

SpecConnectChecks == InitConnectChecks /\ [][NextConnectChecks]_vars


\* What a synapse spec can hold of the two synaptic-element keys.
SynSpecs ==
  UNION {[1..n -> [pre : BOOLEAN, post : BOOLEAN]] : n \in 1..NumSynSpecs}

\* Construction of a OneToOne or AllToAll builder from any synapse specs,
\* then connect() and, in structural-plasticity mode, disconnect().
InitConstruction ==
  /\ rule \in {"one_to_one", "all_to_all"}
  /\ conn_spec = [rule |-> rule]
  /\ allow_multapses_ = TRUE
  /\ sources_ \in NodeCollections
  /\ targets_ \in NodeCollections
  /\ Len(sources_) <= 2 /\ Len(targets_) <= 2
  /\ allow_autapses_ \in BOOLEAN
  /\ use_structural_plasticity_ = FALSE
  /\ make_symmetric_ \in BOOLEAN
  /\ skipping = FALSE
  /\ m = NoLocals
  /\ loc = [tid \in Threads |-> NoLocals]
  /\ syn_specs \in SynSpecs
  /\ n_syn = Len(syn_specs)
  /\ random_params = FALSE
  /\ third_ = <<>>
  /\ synced_rng = NoDraws
  /\ has_proxies = [n \in Nodes |-> TRUE]
  /\ requires_symmetric = FALSE
  /\ stage = "unconstructed"
  /\ run = FreeRun
  /\ InitState
  /\ \A n \in Nodes : owner[n] <= Cardinality({k \in Range(targets_) : k < n})

NextConstruction ==
  \/ Construct
  \/ Connect
  \/ \E tid \in Threads : OneToOne_connect_(tid)
  \/ \E tid \in Threads : AllToAll_connect_(tid)
  \/ ConnectReplay
  \/ ConnectReturn
  \/ Connect_sp
  \/ \E tid \in Threads : OneToOne_sp_connect_(tid)
  \/ \E tid \in Threads : AllToAll_sp_connect_(tid)
  \/ ConnectReturn_sp
  \/ Disconnect_sp
  \/ \E tid \in Threads : OneToOne_sp_disconnect_(tid)
  \/ \E tid \in Threads : AllToAll_sp_disconnect_(tid)
  \/ DisconnectReturn

SpecConstruction == InitConstruction /\ [][NextConstruction]_vars


\* The collections a builder can be constructed from: a NodeCollection may be
\* empty.
AnyCollections == NodeCollections \cup {<<>>}

\* The scalar degrees tried at construction: negative, within and beyond every
\* population size.
Degrees == (0 - 1)..(NumNodes + 1)

\* Construction of a OneToOne, AllToAll, FixedInDegree or FixedOutDegree
\* builder from any pair of collections and any scalar degree, then connect().
\* The number of draws of a build is at most NumNodes.
InitDegreeConstruction ==
  /\ rule \in {"one_to_one", "all_to_all", "fixed_indegree", "fixed_outdegree"}
  /\ conn_spec \in CASE rule = "fixed_indegree" ->
                          [rule : {rule}, indegree : Degrees]
                     [] rule = "fixed_outdegree" ->
                          [rule : {rule}, outdegree : Degrees]
                     [] OTHER -> {[rule |-> rule]}
  /\ sources_ \in AnyCollections
  /\ targets_ \in AnyCollections
  /\ rule = "fixed_indegree" => conn_spec.indegree * Len(targets_) <= NumNodes
  /\ rule = "fixed_outdegree" => conn_spec.outdegree * Len(sources_) <= NumNodes
  /\ allow_autapses_ \in BOOLEAN
  /\ allow_multapses_ \in BOOLEAN
  /\ rule \in {"one_to_one", "all_to_all"} => allow_multapses_
  /\ use_structural_plasticity_ = FALSE
  /\ make_symmetric_ = FALSE
  /\ skipping = FALSE
  /\ m = IF rule = "fixed_outdegree" THEN FixedOutDegree_locals ELSE NoLocals
  /\ loc = [tid \in Threads |-> NoLocals]
  /\ syn_specs = <<[pre |-> FALSE, post |-> FALSE]>>
  /\ n_syn = 1
  /\ random_params = FALSE
  /\ third_ = <<>>
  /\ synced_rng = NoDraws
  /\ has_proxies = [n \in Nodes |-> TRUE]
  /\ requires_symmetric = FALSE
  /\ stage = "unconstructed"
  /\ run = FreeRun
  /\ InitState
  /\ \A n \in Nodes : owner[n] <= Cardinality({k \in Range(targets_) : k < n})

NextDegreeConstruction ==
  \/ Construct
  \/ Connect
  \/ \E tid \in Threads : OneToOne_connect_(tid)
  \/ \E tid \in Threads : AllToAll_connect_(tid)
  \/ \E tid \in Threads : FixedInDegree_connect_(tid)
  \/ FixedOutDegree_draw
  \/ \E tid \in Threads : FixedOutDegree_connect_(tid)
  \/ FixedOutDegree_next_source
  \/ ConnectReturn

SpecDegreeConstruction == InitDegreeConstruction /\ [][NextDegreeConstruction]_vars


\* Construction of a FixedTotalNumber builder from any total, negative ones
\* and totals beyond |sources| * |targets| included, then connect().
InitTotalNumberConstruction ==
  /\ rule = "fixed_total_number"
  /\ conn_spec \in [rule : {"fixed_total_number"}, N : (0 - 1)..MaxN, unit : {"1"}]
  /\ sources_ \in NodeCollections
  /\ targets_ \in NodeCollections
  /\ allow_autapses_ \in BOOLEAN
  /\ allow_multapses_ \in BOOLEAN
  /\ use_structural_plasticity_ = FALSE
  /\ make_symmetric_ = FALSE
  /\ skipping = FALSE
  /\ m = FixedTotalNumber_locals
  /\ loc = [tid \in Threads |-> NoLocals]
  /\ syn_specs = <<[pre |-> FALSE, post |-> FALSE]>>
  /\ n_syn = 1
  /\ random_params = FALSE
  /\ third_ = <<>>
  /\ synced_rng = NoDraws
  /\ has_proxies = [n \in Nodes |-> TRUE]
  /\ requires_symmetric = FALSE
  /\ stage = "unconstructed"
  /\ run = FreeRun
  /\ InitState
  /\ \A n \in Nodes \ Range(targets_) : owner[n] = 0

NextTotalNumberConstruction ==
  \/ Construct
  \/ Connect
  \/ FixedTotalNumber_partition
  \/ \E tid \in Threads : FixedTotalNumber_connect_(tid)
  \/ ConnectReturn

SpecTotalNumberConstruction ==
  InitTotalNumberConstruction /\ [][NextTotalNumberConstruction]_vars


\* Construction of a SymmetricBernoulli builder from any probability, below 0
\* and from 1 on included, and any setting of the three flags, then connect();
\* and, for the replay of connect(), of a OneToOne builder.
InitSymmetricConstruction ==
  /\ rule \in {"symmetric_pairwise_bernoulli", "one_to_one"}
  /\ conn_spec \in IF rule = "one_to_one" THEN {[rule |-> rule]}
                   ELSE [rule : {rule}, p : (0 - 1)..(PDen + 1)]
  /\ sources_ \in NodeCollections
  /\ targets_ \in NodeCollections
  /\ Len(sources_) * Len(targets_) <= NumNodes
  /\ allow_autapses_ \in BOOLEAN
  /\ allow_multapses_ \in BOOLEAN
  /\ make_symmetric_ \in BOOLEAN
  /\ rule = "one_to_one" => allow_multapses_ /\ make_symmetric_
  /\ use_structural_plasticity_ = FALSE
  /\ skipping \in BOOLEAN
  /\ m = NoLocals
  /\ loc = [tid \in Threads |-> IF rule = "one_to_one" THEN NoLocals
                                ELSE SymmetricBernoulli_locals]
  /\ syn_specs = <<[pre |-> FALSE, post |-> FALSE]>>
  /\ n_syn = 1
  /\ random_params = FALSE
  /\ third_ = <<>>
  /\ synced_rng = NoDraws
  /\ has_proxies = [n \in Nodes |-> TRUE]
  /\ requires_symmetric = FALSE
  /\ stage = "unconstructed"
  /\ run = FreeRun
  /\ InitState
     \* the threads being interchangeable, a node is on one of the threads of
     \* the nodes before it or on the next one
  /\ \A n \in Nodes :
       owner[n] <= Cardinality({k \in Range(sources_) \cup Range(targets_) : k < n})

NextSymmetricConstruction ==
  \/ Construct
  \/ Connect
  \/ \E tid \in Threads : SymmetricBernoulli_connect_(tid)
  \/ \E tid \in Threads : OneToOne_connect_(tid)
  \/ ConnectReplay
  \/ ConnectReturn

SpecSymmetricConstruction ==
  InitSymmetricConstruction /\ [][NextSymmetricConstruction]_vars


\* Construction of a tripartite builder from any probabilities, pool size and
\* pool type and any third collection, then connect().  The builds that run
\* are bounded as in InitTripartite.
InitTripartiteConstruction ==
  /\ rule = "tripartite_bernoulli_with_pool"
  /\ sources_ \in NodeCollections
  /\ Len(sources_) = 1
  /\ targets_ \in NodeCollections
  /\ Len(targets_) < NumNodes
  /\ third_ \in AnyCollections
  /\ Len(third_) <= MaxDegree
  /\ \E k \in Nodes : Range(sources_) \cup Range(targets_) \cup Range(third_) = 1..k
  /\ conn_spec \in [rule : {"tripartite_bernoulli_with_pool"},
                    p_primary : (0 - 1)..(PDen + 1),
                    p_third_if_primary : (0 - 1)..(PDen + 1),
                    pool_size : 0..(MaxDegree + 1), random_pool : BOOLEAN,
                    pool_type : {"random", "block", "absent", "other"}]
  /\ conn_spec.random_pool = (conn_spec.pool_type # "block")
  /\ allow_autapses_ \in BOOLEAN
  /\ allow_multapses_ = TRUE
  /\ make_symmetric_ = FALSE
  /\ use_structural_plasticity_ = FALSE
  /\ \/ subclass_ctor(FALSE) # "ok"
     \/ /\ conn_spec.p_primary = PDen \/ conn_spec.p_third_if_primary = PDen
        /\ conn_spec.random_pool => Len(targets_) = 1
        /\ Range(sources_) \cap Range(targets_) = {} => allow_autapses_
  /\ skipping = FALSE
  /\ m = NoLocals
  /\ loc = [tid \in Threads |-> Tripartite_locals]
  /\ syn_specs = <<[pre |-> FALSE, post |-> FALSE]>>
  /\ n_syn = 1
  /\ random_params = FALSE
  /\ synced_rng = NoDraws
  /\ has_proxies = [n \in Nodes |-> TRUE]
  /\ requires_symmetric = FALSE
  /\ stage = "unconstructed"
  /\ run = FreeRun
  /\ InitState
  /\ \A n \in Nodes :
       owner[n] <= Cardinality({k \in Range(targets_) \cup Range(third_) : k < n})

NextTripartiteConstruction ==
  \/ Construct
  \/ Connect
  \/ \E tid \in Threads : Tripartite_connect_(tid)
  \/ ConnectReturn

SpecTripartiteConstruction ==
  InitTripartiteConstruction /\ [][NextTripartiteConstruction]_vars


\* The locals of the calling thread of connect_() before the rule starts.
connect_locals ==
  CASE rule = "fixed_outdegree" -> FixedOutDegree_locals
    [] rule = "fixed_total_number" -> FixedTotalNumber_locals
    [] OTHER -> NoLocals

\* A second build of the same network by the same program: the same builder
\* and the same seeds, so every generator restarts its sequence; what the
\* first build emitted and read is kept aside.
Rerun ==
  /\ run.mode = "first"
  /\ stage = "returned"
  /\ run' = [mode |-> "again", log |-> run.log,
             at |-> [g \in Generators |-> 0],
             first |-> [edges |-> connections, log |-> run.log]]
  /\ stage' = "idle"
  /\ outcome' = "none"
  /\ thrown' = <<>>
  /\ pc' = [tid \in Threads |-> "idle"]
  /\ it' = [tid \in Threads |-> 0]
  /\ cursor' = [tid \in Threads |-> 0]
  /\ connections' = EmptyBag
  /\ exceptions_raised_' = [tid \in Threads |-> <<>>]
  /\ n_connect_' = 0
  /\ loc' = [tid \in Threads |-> NoLocals]
  /\ m' = connect_locals
  /\ UNCHANGED <<cfgvars, synced_rng, sources_, targets_, z_connected>>

\* The six rules with seeded generators, built twice: each edge carries the
\* position of its value in an array parameter and the value drawn for a
\* random parameter.
InitDeterminism ==
  /\ rule \in {"one_to_one", "all_to_all", "fixed_indegree", "fixed_outdegree",
               "fixed_total_number", "pairwise_bernoulli"}
  /\ conn_spec \in CASE rule = "fixed_indegree" ->
                          [rule : {rule}, indegree : 1..MaxDegree]
                     [] rule = "fixed_outdegree" ->
                          [rule : {rule}, outdegree : 1..MaxDegree]
                     [] rule = "fixed_total_number" ->
                          [rule : {rule}, N : 1..MaxN, unit : {"1"}]
                     [] rule = "pairwise_bernoulli" ->
                          [rule : {rule}, p : 1..(PDen - 1)]
                     [] OTHER -> {[rule |-> rule]}
  /\ sources_ \in NodeCollections
  /\ targets_ \in NodeCollections
  /\ Len(sources_) <= 2 /\ Len(targets_) = 2
  /\ allow_autapses_ \in BOOLEAN
  /\ allow_multapses_ \in BOOLEAN
  /\ rule \in {"one_to_one", "all_to_all", "pairwise_bernoulli"} => allow_multapses_
  /\ use_structural_plasticity_ = FALSE
  /\ subclass_ctor(FALSE) = "ok"
  /\ make_symmetric_ = FALSE
  /\ skipping \in BOOLEAN
  /\ random_params \in BOOLEAN
  /\ m = connect_locals
  /\ loc = [tid \in Threads |-> NoLocals]
  /\ n_syn = 1
  /\ syn_specs = <<[pre |-> FALSE, post |-> FALSE]>>
  /\ third_ = <<>>
  /\ synced_rng = NoDraws
  /\ has_proxies = [n \in Nodes |-> TRUE]
  /\ requires_symmetric = FALSE
  /\ stage = "idle"
  /\ run = SeededRun
  /\ InitState
  /\ \A n \in Nodes \ Range(targets_) : owner[n] = 0
  /\ owner[targets_[1]] = 0 /\ owner[targets_[2]] = 1

NextDeterminism ==
  \/ Connect
  \/ \E tid \in Threads : OneToOne_connect_(tid)
  \/ \E tid \in Threads : AllToAll_connect_(tid)
  \/ \E tid \in Threads : FixedInDegree_connect_(tid)
  \/ FixedOutDegree_draw
  \/ \E tid \in Threads : FixedOutDegree_connect_(tid)
  \/ FixedOutDegree_next_source
  \/ FixedTotalNumber_partition
  \/ \E tid \in Threads : FixedTotalNumber_connect_(tid)
  \/ \E tid \in Threads : Bernoulli_connect_(tid)
  \/ ConnectReturn
  \/ Rerun

SpecDeterminism == InitDeterminism /\ [][NextDeterminism]_vars


\* The thread of a node that lives on another MPI process.
OtherProcess == NumThreads

\* Every thread of one process calls change_connected_synaptic_elements once
\* for the same pair and the same update; each node of the pair lives on a
\* thread of this process or on another process.
InitChangeElements ==
  /\ rule = "sp_builder"
  /\ conn_spec = [rule |-> "sp_builder"]
  /\ sources_ \in [1..1 -> Nodes]
  /\ targets_ \in [1..1 -> Nodes]
  /\ m \in [update : {0 - 2, 0 - 1, 1, 2}]
  /\ owner \in [Nodes -> Threads \cup {OtherProcess}]
  /\ threads_per_rank = NumThreads
  /\ allow_autapses_ = TRUE
  /\ allow_multapses_ = TRUE
  /\ make_symmetric_ = FALSE
  /\ use_structural_plasticity_ = TRUE
  /\ skipping = FALSE
  /\ n_syn = 1
  /\ syn_specs = <<[pre |-> TRUE, post |-> TRUE]>>
  /\ random_params = FALSE
  /\ third_ = <<>>
  /\ synced_rng = NoDraws
  /\ has_proxies = [n \in Nodes |-> TRUE]
  /\ requires_symmetric = FALSE
  /\ run = FreeRun
  /\ stage = "change_elements"
  /\ outcome = "none"
  /\ pc = [tid \in Threads |-> "run"]
  /\ it = [tid \in Threads |-> 0]
  /\ cursor = [tid \in Threads |-> 0]
  /\ loc = [tid \in Threads |-> NoLocals]
  /\ connections = EmptyBag
  /\ z_connected = [n \in Nodes |-> [pre |-> 0, post |-> 0]]
  /\ exceptions_raised_ = [tid \in Threads |-> <<>>]
  /\ thrown = <<>>
  /\ n_connect_ = 0

NextChangeElements == \E tid \in Threads : change_elements_call(tid)

SpecChangeElements == InitChangeElements /\ [][NextChangeElements]_vars


\* Every rule, in plain and in structural-plasticity mode, with and without
\* targets that have no proxies.
InitAllRules ==
  \/ InitOneToOne
  \/ InitAllToAll
  \/ InitBernoulli
  \/ InitFixedInDegree
  \/ InitFixedOutDegree
  \/ InitFixedTotalNumber
  \/ InitSymmetricBernoulli
  \/ InitTripartite
  \/ InitStructuralPlasticity
  \/ InitExceptions

NextAllRules ==
  \/ Connect
  \/ \E tid \in Threads : OneToOne_connect_(tid)
  \/ \E tid \in Threads : AllToAll_connect_(tid)
  \/ \E tid \in Threads : Bernoulli_connect_(tid)
  \/ \E tid \in Threads : FixedInDegree_connect_(tid)
  \/ FixedOutDegree_draw
  \/ \E tid \in Threads : FixedOutDegree_connect_(tid)
  \/ FixedOutDegree_next_source
  \/ FixedTotalNumber_partition
  \/ \E tid \in Threads : FixedTotalNumber_connect_(tid)
  \/ \E tid \in Threads : SymmetricBernoulli_connect_(tid)
  \/ \E tid \in Threads : Tripartite_connect_(tid)
  \/ ConnectReplay
  \/ ConnectReturn
  \/ Connect_sp
  \/ \E tid \in Threads : OneToOne_sp_connect_(tid)
  \/ \E tid \in Threads : AllToAll_sp_connect_(tid)
  \/ SPBuilder_sp_connect
  \/ \E tid \in Threads : SPBuilder_connect_(tid)
  \/ ConnectReturn_sp

SpecAllRules == InitAllRules /\ [][NextAllRules]_vars


\* What syn_params of one synapse spec can hold of weight and delay.
SynParams ==
  UNION {[1..n -> [weight : BOOLEAN, delay : BOOLEAN]] : n \in 1..NumSynSpecs}

\* Every thread calls single_connect_ once, for one source and a target it
\* holds, with or without proxies, for every choice of weight and delay in the
\* synapse specs.
InitSingleConnect ==
  /\ rule = "one_to_one"
  /\ conn_spec \in [rule : {"one_to_one"}, syn_params : SynParams]
  /\ n_syn = Len(conn_spec.syn_params)
  /\ syn_specs = [k \in 1..n_syn |-> [pre |-> FALSE, post |-> FALSE]]
  /\ sources_ \in [1..1 -> Nodes]
  /\ targets_ \in [1..NumThreads -> Nodes]
  /\ owner = [n \in Nodes |->
                IF \E tid \in Threads : targets_[tid + 1] = n
                THEN CHOOSE tid \in Threads : targets_[tid + 1] = n
                ELSE 0]
  /\ \A tid \in Threads : owner[targets_[tid + 1]] = tid
  /\ has_proxies \in [Nodes -> BOOLEAN]
  /\ \A n \in Nodes \ Range(targets_) : has_proxies[n]
  /\ threads_per_rank = NumThreads
  /\ allow_autapses_ = TRUE
  /\ allow_multapses_ = TRUE
  /\ make_symmetric_ = FALSE
  /\ use_structural_plasticity_ = FALSE
  /\ skipping \in BOOLEAN
  /\ random_params = FALSE
  /\ third_ = <<>>
  /\ synced_rng = NoDraws
  /\ requires_symmetric = FALSE
  /\ run = FreeRun
  /\ stage = "single_connect_"
  /\ outcome = "none"
  /\ pc = [tid \in Threads |-> "run"]
  /\ it = [tid \in Threads |-> 0]
  /\ cursor = [tid \in Threads |-> 0]
  /\ loc = [tid \in Threads |-> [done |-> <<>>]]
  /\ m = NoLocals
  /\ connections = EmptyBag
  /\ z_connected = [n \in Nodes |-> [pre |-> 0, post |-> 0]]
  /\ exceptions_raised_ = [tid \in Threads |-> <<>>]
  /\ thrown = <<>>
  /\ n_connect_ = 0

NextSingleConnect == \E tid \in Threads : single_connect_call(tid)

SpecSingleConnect == InitSingleConnect /\ [][NextSingleConnect]_vars


\* OneToOne and AllToAll in plain mode, over target collections that make
\* connect_ take its target loop and its local-node loop.
InitLoopChoice ==
  \/ InitOneToOne /\ ~make_symmetric_
  \/ InitAllToAll /\ ~make_symmetric_

NextLoopChoice ==
  \/ Connect
  \/ \E tid \in Threads : OneToOne_connect_(tid)
  \/ \E tid \in Threads : AllToAll_connect_(tid)
  \/ ConnectReturn

SpecLoopChoice == InitLoopChoice /\ [][NextLoopChoice]_vars

\* A OneToOne builder without structural plasticity whose targets may lack
\* proxies: connect(), with its replay pass under make_symmetric, and
\* disconnect() on the fresh builder or after the connect() call.  conn_spec
\* keeps the collections the constructor was given.
InitDisconnect ==
  /\ rule = "one_to_one"
  /\ allow_multapses_ = TRUE
  /\ sources_ \in NodeCollections
  /\ targets_ \in NodeCollections
  /\ Len(sources_) = Len(targets_)
  /\ conn_spec = [rule |-> rule, sources |-> sources_, targets |-> targets_]
  /\ allow_autapses_ \in BOOLEAN
  /\ use_structural_plasticity_ = FALSE
  /\ make_symmetric_ \in BOOLEAN
  /\ skipping \in BOOLEAN
  /\ m = NoLocals
  /\ loc = [tid \in Threads |-> OneToOne_disconnect_locals]
  /\ n_syn = 1
  /\ random_params = FALSE
  /\ third_ = <<>>
  /\ synced_rng = NoDraws
  /\ has_proxies \in [Nodes -> BOOLEAN]
  /\ \A n \in Nodes \ (Range(sources_) \cup Range(targets_)) : has_proxies[n]
  /\ requires_symmetric = FALSE
  /\ InitCommon
  /\ \A n \in Nodes :
       owner[n] <= Cardinality({k \in Range(sources_) \cup Range(targets_) : k < n})

NextDisconnect ==
  \/ Connect
  \/ \E tid \in Threads : OneToOne_connect_(tid)
  \/ ConnectReplay
  \/ ConnectReturn
  \/ Disconnect
  \/ \E tid \in Threads : OneToOne_disconnect_(tid)
  \/ DisconnectReturn

SpecDisconnect == InitDisconnect /\ [][NextDisconnect]_vars

\* OneToOne with make_symmetric and an array-indexed parameter: every edge
\* carries the position of the array element it was created with.
InitSymmetricArray ==
  /\ rule = "one_to_one"
  /\ conn_spec = [rule |-> rule]
  /\ allow_multapses_ = TRUE
  /\ sources_ \in NodeCollections
  /\ targets_ \in NodeCollections
  /\ Len(sources_) = Len(targets_)
  /\ allow_autapses_ \in BOOLEAN
  /\ use_structural_plasticity_ = FALSE
  /\ make_symmetric_ = TRUE
  /\ skipping = TRUE
  /\ random_params = FALSE
  /\ m = NoLocals
  /\ loc = [tid \in Threads |-> NoLocals]
  /\ n_syn = NumSynSpecs
  /\ syn_specs = [k \in 1..n_syn |-> [pre |-> FALSE, post |-> FALSE]]
  /\ third_ = <<>>
  /\ synced_rng = NoDraws
  /\ has_proxies = [n \in Nodes |-> TRUE]
  /\ requires_symmetric = FALSE
  /\ stage = "idle"
  /\ run = SeededRun
  /\ InitState

NextSymmetricArray ==
  \/ Connect
  \/ \E tid \in Threads : OneToOne_connect_(tid)
  \/ ConnectReplay
  \/ ConnectReturn

SpecSymmetricArray == InitSymmetricArray /\ [][NextSymmetricArray]_vars

\* TripartiteBernoulliWithPool with two sources, so that a target can draw
\* the in-degrees 0, 1 and 2, and one third-factor node that is the pool of
\* every target; the third-factor trial of a pair always fails or always
\* succeeds.
InitTripartitePrimary ==
  /\ rule = "tripartite_bernoulli_with_pool"
  /\ sources_ \in NodeCollections
  /\ Len(sources_) = 2
  /\ targets_ \in NodeCollections
  /\ Len(targets_) < NumNodes
  /\ third_ \in NodeCollections
  /\ Len(third_) = 1
  /\ conn_spec \in [rule : {"tripartite_bernoulli_with_pool"},
                    p_primary : 0..PDen, p_third_if_primary : {0, PDen},
                    pool_size : {1}, random_pool : {FALSE},
                    pool_type : {"block"}]
  /\ Tripartite_ctor(conn_spec.p_primary, conn_spec.p_third_if_primary, PDen,
                     conn_spec.pool_size, conn_spec.random_pool) = "ok"
  /\ allow_autapses_ \in BOOLEAN
  /\ allow_multapses_ = TRUE
  /\ make_symmetric_ = FALSE
  /\ skipping = FALSE
  /\ m = NoLocals
  /\ loc = [tid \in Threads |-> Tripartite_locals]
  /\ n_syn = 1
  /\ random_params = FALSE
  /\ synced_rng = NoDraws
  /\ use_structural_plasticity_ = FALSE
  /\ has_proxies = [n \in Nodes |-> TRUE]
  /\ requires_symmetric = FALSE
  /\ InitCommon
  /\ \A n \in Nodes :
       owner[n] <= Cardinality({k \in Range(targets_) \cup Range(third_) : k < n})

SpecTripartitePrimary == InitTripartitePrimary /\ [][NextTripartite]_vars

\* FixedInDegree and FixedOutDegree under a fair scheduler and fair random
\* number generators.  Every worker of a parallel region and the calling
\* thread keep running, which is weak fairness of each step; a draw that is
\* rejected leaves the state as it is, so weak fairness of a drawing step says
\* that a generator which can deliver an accepted value does so in the end.
InitRedraw ==
  /\ InitFixedInDegree \/ InitFixedOutDegree
  /\ ~skipping

NextRedraw ==
  \/ Connect
  \/ \E tid \in Threads : FixedInDegree_connect_(tid)
  \/ FixedOutDegree_draw
  \/ \E tid \in Threads : FixedOutDegree_connect_(tid)
  \/ FixedOutDegree_next_source
  \/ ConnectReturn

SpecRedrawFair ==
  /\ InitRedraw
  /\ [][NextRedraw]_vars
  /\ WF_vars(Connect)
  /\ \A tid \in Threads : WF_vars(FixedInDegree_connect_(tid))
  /\ WF_vars(FixedOutDegree_draw)
  /\ \A tid \in Threads : WF_vars(FixedOutDegree_connect_(tid))
  /\ WF_vars(FixedOutDegree_next_source)
  /\ WF_vars(ConnectReturn)

\* FixedTotalNumber under a fair scheduler and fair random number generators:
\* the calling thread and every worker keep running, and a worker whose
\* generator can deliver an accepted pair gets one in the end.
SpecTotalNumberFair ==
  /\ InitFixedTotalNumber
  /\ [][NextFixedTotalNumber]_vars
  /\ WF_vars(Connect)
  /\ WF_vars(FixedTotalNumber_partition)
  /\ \A tid \in Threads : WF_vars(FixedTotalNumber_connect_(tid))
  /\ WF_vars(ConnectReturn)

\* C1: OneToOne with allow_autapses = false: when every worker has finished
\* the forward connect_ without a failure, the emitted edges are exactly one
\* edge (sources[i], targets[i]) per synapse specification for each i with
\* sources[i] # targets[i], emitted by the owner of the target; nothing else.
C1_OneToOneExactEdges ==
  (rule = "one_to_one" /\ stage = "connect_" /\ AllDone /\ ~allow_autapses_
     /\ \A tid \in Threads : ~Populated(tid))
  => /\ WellFormedEdges
     /\ \A k \in 1..n_syn : \A s \in Nodes : \A t \in Nodes :
          /\ Emitted(k, s, t) = IF Paired(sources_, targets_, s, t) /\ s # t THEN 1 ELSE 0
          /\ EmittedByOthers(k, s, t) = 0

\* C1 witness: a finished forward pass with autapses disabled in which one
\* index pair is an autapse and another is not, the targets living on
\* different threads.
C1_Witness ==
  /\ rule = "one_to_one" /\ stage = "connect_" /\ AllDone /\ ~allow_autapses_
  /\ \E i \in DOMAIN sources_ : sources_[i] = targets_[i]
  /\ \E i \in DOMAIN sources_ : sources_[i] # targets_[i]
  /\ \E t1 \in Range(targets_) : \E t2 \in Range(targets_) : owner[t1] # owner[t2]
  /\ connections # EmptyBag

\* Whether OneToOne emits the index pair (s, t) of (srcs, tgts).
OneToOneEmits(srcs, tgts, s, t) ==
  Paired(srcs, tgts, s, t) /\ (s # t \/ allow_autapses_)

\* C9: connect() with make_symmetric on OneToOne: connect_ has run exactly
\* twice when connect() returns, and the emitted edges are the forward
\* pass's edges (sources[i], targets[i]) plus one reverse edge
\* (targets[i], sources[i]) for each of them, each emitted by the owner of
\* its own target.
C9_SymmetricReplay ==
  (rule = "one_to_one" /\ make_symmetric_ /\ stage = "returned" /\ outcome = "ok")
  => /\ n_connect_ = 2
     /\ WellFormedEdges
     /\ \A k \in 1..n_syn : \A s \in Nodes : \A t \in Nodes :
          /\ Emitted(k, s, t) =
               (IF OneToOneEmits(sources_, targets_, s, t) THEN 1 ELSE 0)
               + (IF OneToOneEmits(sources_, targets_, t, s) THEN 1 ELSE 0)
          /\ EmittedByOthers(k, s, t) = 0

\* C9 witness: connect() has returned after a replay that emitted a reverse
\* edge whose forward edge was emitted by another thread.
C9_Witness ==
  /\ rule = "one_to_one" /\ make_symmetric_ /\ stage = "returned" /\ outcome = "ok"
  /\ n_connect_ = 2
  /\ \E i \in DOMAIN sources_ :
       /\ sources_[i] # targets_[i]
       /\ owner[sources_[i]] # owner[targets_[i]]
       /\ Emitted(1, sources_[i], targets_[i]) = 1
       /\ Emitted(1, targets_[i], sources_[i]) = 1
       /\ ~Paired(sources_, targets_, targets_[i], sources_[i])

\* C2: AllToAll with disjoint sources and targets: when every worker has
\* finished connect_, each (source, target) pair has exactly one edge per
\* synapse specification, emitted by the thread that owns the target, which
\* makes |sources| * |targets| edges per synapse specification.
C2_AllToAllDisjoint ==
  (rule = "all_to_all" /\ stage = "connect_" /\ AllDone
     /\ Range(sources_) \cap Range(targets_) = {})
  => /\ WellFormedEdges
     /\ \A k \in 1..n_syn : \A s \in Nodes : \A t \in Nodes :
          /\ Emitted(k, s, t) =
               IF s \in Range(sources_) /\ t \in Range(targets_) THEN 1 ELSE 0
          /\ EmittedByOthers(k, s, t) = 0
     /\ BagCardinality(connections) = n_syn * Len(sources_) * Len(targets_)

\* C2 witness: a finished AllToAll build of two sources onto two other
\* targets that live on different threads.
C2_Witness ==
  /\ rule = "all_to_all" /\ stage = "connect_" /\ AllDone
  /\ Range(sources_) \cap Range(targets_) = {}
  /\ Len(targets_) >= 2
  /\ \E t1 \in Range(targets_) : \E t2 \in Range(targets_) : owner[t1] # owner[t2]
  /\ BagCardinality(connections) = n_syn * Len(sources_) * Len(targets_)

\* C6: Bernoulli with scalar p: when every worker has finished connect_,
\* p = 1 has emitted exactly the pairs AllToAll connects under the same
\* allow_autapses setting, once each per synapse specification and on the
\* target's owner, and p = 0 has emitted nothing.
C6_BernoulliExtremes ==
  (rule = "pairwise_bernoulli" /\ stage = "connect_" /\ AllDone)
  => /\ conn_spec.p = PDen =>
          /\ WellFormedEdges
          /\ \A k \in 1..n_syn : \A s \in Nodes : \A t \in Nodes :
               /\ Emitted(k, s, t) =
                    IF t \in Range(targets_) /\ s \in AllToAll_connected(t) THEN 1 ELSE 0
               /\ EmittedByOthers(k, s, t) = 0
     /\ conn_spec.p = 0 => connections = EmptyBag

\* C6 witness: a finished Bernoulli build with p = 1 over overlapping
\* populations with autapses disabled that emitted edges on two threads.
C6_Witness ==
  /\ rule = "pairwise_bernoulli" /\ stage = "connect_" /\ AllDone
  /\ conn_spec.p = PDen /\ ~allow_autapses_
  /\ Range(sources_) \cap Range(targets_) # {}
  /\ \E e1 \in DOMAIN connections : \E e2 \in DOMAIN connections : e1.thread # e2.thread

\* Number of edges into t of synapse specification k, over all threads.
InDegree(k, t) == SumOver([s \in Nodes |-> Emitted(k, s, t)], Nodes)

\* Number of edges out of s of synapse specification k, over all threads.
OutDegree(k, s) == SumOver([t \in Nodes |-> Emitted(k, s, t)], Nodes)

\* C3: FixedInDegree with scalar indegree d and allow_multapses = false: when
\* connect_ has completed, every target has exactly d incoming edges per
\* synapse specification, from pairwise distinct sources of the source
\* collection, none of them the target itself when autapses are disabled;
\* nodes outside the target collection receive nothing, so d = 0 emits nothing.
C3_FixedInDegreeExact ==
  (rule = "fixed_indegree" /\ stage = "connect_" /\ AllDone /\ ~allow_multapses_)
  => /\ WellFormedEdges
     /\ \A k \in 1..n_syn : \A t \in Nodes :
          /\ InDegree(k, t) = IF t \in Range(targets_) THEN conn_spec.indegree ELSE 0
          /\ \A s \in Nodes :
               /\ Emitted(k, s, t) <= 1
               /\ Emitted(k, s, t) = 1 => s \in Range(sources_)
               /\ EmittedByOthers(k, s, t) = 0
          /\ ~allow_autapses_ => Emitted(k, t, t) = 0
     /\ conn_spec.indegree = 0 => connections = EmptyBag

\* C3 witness: a completed build with multapses and autapses disabled and
\* indegree 2, whose targets live on different threads and one of which is
\* also a source.
C3_Witness ==
  /\ rule = "fixed_indegree" /\ stage = "connect_" /\ AllDone
  /\ ~allow_multapses_ /\ ~allow_autapses_
  /\ conn_spec.indegree = 2
  /\ Range(sources_) \cap Range(targets_) # {}
  /\ \E t1 \in Range(targets_) : \E t2 \in Range(targets_) : owner[t1] # owner[t2]
  /\ \A t \in Range(targets_) : InDegree(1, t) = 2

\* C4: FixedOutDegree: the targets of a source are drawn by the calling thread
\* before the parallel region, and every drawn target is emitted by exactly
\* one thread, its owner.  When connect_ has completed, the edges of every
\* synapse specification are, as a multiset of (source, target) pairs, the
\* drawn pairs, whatever the assignment of nodes to threads, and every source
\* has exactly outdegree outgoing edges summed over the threads.
C4_FixedOutDegreeDraws ==
  /\ (rule = "fixed_outdegree" /\ stage = "region") =>
       /\ Len(m.tgt_ids_) = conn_spec.outdegree
       /\ \A tid \in Threads : \A k \in 1..n_syn : \A t \in Nodes :
            Mult(connections, Edge(tid, k, sources_[m.i + 1], t))
              = IF owner[t] = tid
                THEN Cardinality({j \in 1..it[tid] : m.tgt_ids_[j] = t})
                ELSE 0
  /\ (rule = "fixed_outdegree" /\ stage = "connect_" /\ AllDone) =>
       /\ WellFormedEdges
       /\ \A k \in 1..n_syn : \A s \in Nodes :
            /\ OutDegree(k, s) = IF s \in Range(sources_) THEN conn_spec.outdegree ELSE 0
            /\ \A t \in Nodes :
                 /\ Emitted(k, s, t) = Mult(m.drawn, [src |-> s, tgt |-> t])
                 /\ EmittedByOthers(k, s, t) = 0

\* C4 witness: a completed build with outdegree 2 in which some source drew
\* two targets that live on different threads.
C4_Witness ==
  /\ rule = "fixed_outdegree" /\ stage = "connect_" /\ AllDone
  /\ conn_spec.outdegree = 2
  /\ \E s \in Range(sources_) : \E t1 \in Nodes : \E t2 \in Nodes :
       /\ owner[t1] # owner[t2]
       /\ Emitted(1, s, t1) >= 1 /\ Emitted(1, s, t2) >= 1

\* Number of edges of synapse specification k emitted on thread tid.
EmittedOn(tid, k) ==
  SumOver([p \in Nodes \X Nodes |-> Mult(connections, Edge(tid, k, p[1], p[2]))],
          Nodes \X Nodes)

\* C5: FixedTotalNumber with N >= 0: once the partition loop has ended, every
\* per-VP count is >= 0, is 0 for a VP that holds no target, and the counts
\* still to be emitted plus the edges already emitted sum to exactly N per
\* synapse specification, each worker emitting only on its own VP; when all
\* workers have finished, exactly N edges have been emitted.
C5_PartitionSumsToN ==
  (rule = "fixed_total_number" /\ stage = "connect_") =>
    /\ \A vp \in Threads :
         /\ m.num_conns_on_vp[vp] >= 0
         /\ number_of_targets_on_vp(vp) = 0 =>
              (m.num_conns_on_vp[vp] = 0 /\ EmittedOn(vp, 1) = 0)
    /\ \A k \in 1..n_syn :
         SumOver([vp \in Threads |-> m.num_conns_on_vp[vp] + EmittedOn(vp, k)], Threads)
           = conn_spec.N
    /\ AllDone => \A k \in 1..n_syn :
         SumOver([vp \in Threads |-> EmittedOn(vp, k)], Threads) = conn_spec.N

\* C7: SymmetricBernoulli: when all threads have finished, for every ordered
\* pair (s, t) and every synapse specification there are as many edges s -> t
\* as edges t -> s, no edge has s = t, and so every node has as many incoming
\* as outgoing edges, whatever the assignment of nodes to threads.
C7_SymmetricCounts ==
  (rule = "symmetric_pairwise_bernoulli" /\ stage = "connect_" /\ AllDone) =>
    \A k \in 1..n_syn : \A s \in Nodes :
      /\ Emitted(k, s, s) = 0
      /\ InDegree(k, s) = OutDegree(k, s)
      /\ \A t \in Nodes : Emitted(k, s, t) = Emitted(k, t, s)

\* The index in third_ of the first pool member of the target at collection
\* index i, as stated for block pools.
BlockFirst(i) ==
  IF conn_spec.pool_size > 1
  THEN i * conn_spec.pool_size
  ELSE i \div (Len(targets_) \div Len(third_))

\* The node emitted as third-factor node by the auxiliary edge e.
ThirdOf(e) == IF e.syn = "third_in" THEN e.tgt ELSE e.src

\* The edges emitted through the auxiliary builders.
AuxEdges == {e \in DOMAIN connections : "for" \in DOMAIN e}

C10_RoundTripRestoresCounts ==
  (use_structural_plasticity_ /\ stage = "disconnected") =>
    \A n \in Nodes : z_connected[n] = [pre |-> 0, post |-> 0]

\* C11: OneToOne in the target-loop regime with an array-indexed parameter:
\* on every thread the cursor of the parameter has advanced once per pair
\* attempted so far, proxies and rejected autapses included, so that the pair
\* at index i is served array element i whichever thread owns its target.
C11_OneToOneCursorLockstep ==
  (/\ rule = "one_to_one" /\ ~use_structural_plasticity_
   /\ stage \in {"connect_", "replay"} /\ skipping /\ loop_over_targets_) =>
    \A tid \in Threads : cursor[tid] = it[tid]

\* The number of (source, target) pairs the rule considers in one build.
PairsConsidered ==
  CASE rule = "all_to_all" -> Len(sources_) * Len(targets_)
    [] rule = "fixed_indegree" -> conn_spec.indegree * Len(targets_)
    [] rule = "fixed_outdegree" -> conn_spec.outdegree * Len(sources_)

\* The number of pairs thread tid has behind it at its place in the build.
PairsPassed(tid) ==
  CASE rule = "all_to_all" -> it[tid] * Len(sources_)
    [] rule = "fixed_indegree" -> it[tid] * conn_spec.indegree + loc[tid].j
    [] rule = "fixed_outdegree" ->
         m.i * conn_spec.outdegree + (IF stage = "region" THEN it[tid] ELSE 0)

\* C12: AllToAll, FixedInDegree with a scalar indegree and FixedOutDegree in
\* the target-loop regime: on every thread the cursor of a skip-registered
\* parameter has advanced once per (source, target) pair the thread has
\* passed, by a value call for an emitted pair and by a skip otherwise, the
\* value calls being as many as the edges the thread emitted per synapse
\* specification; all threads end the build at the number of pairs the rule
\* considered.
C12_CursorPerPair ==
  (skipping /\ rule \in {"all_to_all", "fixed_indegree", "fixed_outdegree"}) =>
    /\ stage \in {"sequential", "region", "connect_"} =>
         \A tid \in Threads :
           /\ cursor[tid] = PairsPassed(tid)
           /\ EmittedOn(tid, 1) <= cursor[tid]
    /\ (stage = "returned" /\ outcome = "ok") =>
         \A tid \in Threads : cursor[tid] = PairsConsidered

\* C12 witness: a finished AllToAll build with a rejected autapse in which
\* one thread emitted edges and another only skipped.
C12_Witness ==
  /\ rule = "all_to_all" /\ skipping /\ stage = "returned" /\ outcome = "ok"
  /\ ~allow_autapses_ /\ Range(sources_) \cap Range(targets_) # {}
  /\ Len(sources_) > 1
  /\ \E t1, t2 \in Threads :
       /\ EmittedOn(t1, 1) > 0
       /\ EmittedOn(t2, 1) = 0
       /\ cursor[t1] = PairsConsidered /\ cursor[t2] = PairsConsidered

\* A worker step that fails: the failure goes into the slot of the failing
\* thread, which leaves its loop; the calling thread's position, the outcome
\* of the call, the other slots and the edges in storage stay as they are.
FailureIsCaptured ==
  \A tid \in Threads :
    exceptions_raised_'[tid] # exceptions_raised_[tid] =>
      /\ pc[tid] = "run" /\ pc'[tid] = "done"
      /\ exceptions_raised_'[tid] # <<>>
      /\ exceptions_raised_'[tid][1].thread = tid
      /\ \A u \in Threads \ {tid} : exceptions_raised_'[u] = exceptions_raised_[u]
      /\ stage' = stage /\ outcome' = outcome /\ thrown' = thrown
      /\ connections' = connections

\* Outside disconnect() no step takes an edge out of storage.
EdgesRemain == stage' # "sp_disconnect_" => connections \sqsubseteq connections'

\* The slot the loop at the end of a call finds first.
LowestPopulated == CHOOSE t \in Threads : Populated(t) /\ \A u \in Threads : Populated(u) => t <= u

\* C13: connect(), disconnect() and SPBuilder::sp_connect(): a failure
\* inside a worker's try block does not leave the parallel region, it is
\* stored in the slot of that thread; after the region the call throws a
\* WrappedThreadException if and only if some slot is populated, and the
\* exception carries the failure of the lowest-numbered thread whose slot is
\* populated; edges emitted before the failure remain in storage.
C13_WorkerFailures ==
  /\ [][FailureIsCaptured /\ EdgesRemain]_vars
  /\ [](stage \in {"sp_connect_", "connect_", "replay", "sp_disconnect_"} =>
          outcome = "none" /\ thrown = <<>>)
  /\ []((stage \in {"returned", "disconnected"}
           /\ outcome \in {"ok", "WrappedThreadException"}) =>
          /\ outcome = "WrappedThreadException" <=> \E tid \in Threads : Populated(tid)
          /\ outcome = "ok" => thrown = <<>>
          /\ outcome = "WrappedThreadException" =>
               /\ thrown = exceptions_raised_[LowestPopulated]
               /\ thrown[1].thread = LowestPopulated)

\* C13 witness: a call that has thrown with the slots of two threads
\* populated and with edges in storage.
C13_Witness ==
  /\ stage = "returned" /\ outcome = "WrappedThreadException"
  /\ \E t1, t2 \in Threads : t1 < t2 /\ Populated(t1) /\ Populated(t2)
                              /\ thrown = exceptions_raised_[t1]
  /\ connections # EmptyBag

\* The exception the claim expects of connect(), "none" when it expects the
\* rule code to run.
ExpectedOfConnect ==
  IF requires_symmetric /\ ~is_symmetric /\ ~make_symmetric_ THEN "BadProperty"
  ELSE IF make_symmetric_ /\ rule \notin {"one_to_one", "symmetric_pairwise_bernoulli"}
       THEN "NotImplemented"
  ELSE IF make_symmetric_ /\ use_structural_plasticity_ THEN "NotImplemented"
  ELSE "none"

\* No rule code has run: no worker has started, nothing was emitted, no
\* synaptic-element count and no parameter cursor has moved.
NothingDone ==
  /\ connections = EmptyBag
  /\ \A n \in Nodes : z_connected[n] = [pre |-> 0, post |-> 0]
  /\ \A tid \in Threads : cursor[tid] = 0 /\ pc[tid] = "idle" /\ ~Populated(tid)
  /\ n_connect_ = 0

\* C14: connect() fails before running any rule code, with BadProperty when
\* a selected synapse model requires symmetric connections and neither
\* is_symmetric() nor make_symmetric holds, with NotImplemented when
\* make_symmetric is set on a rule that does not support it, and with
\* NotImplemented when structural plasticity is combined with make_symmetric;
\* in every other case it throws neither at its start.
C14_ConnectFailsFast ==
  /\ ExpectedOfConnect # "none" =>
       /\ stage \in {"idle", "returned"}
       /\ stage = "returned" => outcome = ExpectedOfConnect
       /\ NothingDone
  /\ (ExpectedOfConnect = "none" /\ stage # "idle") =>
       outcome \notin {"BadProperty", "NotImplemented"}

\* C14 witness: connect() has thrown BadProperty on an AllToAll builder with
\* different populations whose synapse model requires symmetric connections.
C14_Witness ==
  /\ stage = "returned" /\ outcome = "BadProperty"
  /\ rule = "all_to_all" /\ sources_ # targets_ /\ requires_symmetric
  /\ NothingDone

\* Some synapse spec holds one of the two synaptic-element keys.
HasElementKey == \E k \in DOMAIN syn_specs : syn_specs[k].pre \/ syn_specs[k].post

\* The calling thread is in, or the workers are running, the plain connect_().
InPlainConnect == stage \in {"sequential", "region", "connect_", "replay"}

\* The calling thread is in sp_connect_() or sp_disconnect_().
InSpCode == stage \in {"sp_connect_", "sp_disconnect_", "disconnected"}

\* C15: when a synapse spec holds pre_synaptic_element or
\* post_synaptic_element, construction throws KernelException if there is more
\* than one synapse spec and BadProperty if the single spec holds exactly one
\* of the two keys, and otherwise sets structural-plasticity mode, in which
\* connect() and disconnect() run sp_connect_ and sp_disconnect_ and never the
\* plain connect_; without any such key the builder is in plain mode and never
\* runs sp_connect_ or sp_disconnect_.
C15_ConstructionMode ==
  stage # "unconstructed" =>
    /\ (HasElementKey /\ Len(syn_specs) > 1) =>
         stage = "failed" /\ outcome = "KernelException"
    /\ (Len(syn_specs) = 1 /\ syn_specs[1].pre # syn_specs[1].post) =>
         stage = "failed" /\ outcome = "BadProperty"
    /\ (Len(syn_specs) = 1 /\ syn_specs[1].pre /\ syn_specs[1].post
          /\ stage # "failed") =>
         /\ use_structural_plasticity_
         /\ ~InPlainConnect
         /\ n_connect_ = 0
         /\ stage = "returned" /\ connect_checks = "ok" =>
              \A tid \in Threads : pc[tid] = "done"
    /\ ~HasElementKey /\ stage # "failed" =>
         /\ ~use_structural_plasticity_
         /\ ~InSpCode
         /\ \A n \in Nodes : z_connected[n] = [pre |-> 0, post |-> 0]

\* C15 witness: a builder constructed from one synapse spec with both keys has
\* run connect() through sp_connect_ and disconnect() through sp_disconnect_.
C15_Witness ==
  /\ stage = "disconnected"
  /\ Len(syn_specs) = 1 /\ syn_specs[1].pre /\ syn_specs[1].post
  /\ n_connect_ = 0
  /\ \E n \in Nodes : z_connected[n] # [pre |-> 0, post |-> 0]

\* C16: with allow_autapses = false no edge in the connection storage has its
\* source id equal to its target id, in any state of any rule; with
\* allow_multapses = false FixedInDegree and FixedOutDegree hold every
\* (source, target) pair of a synapse spec at most once.
C16_NoRejectedPairEmitted ==
  /\ ~allow_autapses_ => \A e \in DOMAIN connections : e.src # e.tgt
  /\ (~allow_multapses_ /\ rule \in {"fixed_indegree", "fixed_outdegree"}) =>
       \A e1, e2 \in DOMAIN connections :
         (e1.src = e2.src /\ e1.tgt = e2.tgt /\ e1.syn = e2.syn) =>
           e1 = e2 /\ connections[e1] = 1

\* C17: constructing a builder with an empty source collection or an empty
\* target collection fails with BadProperty, and nothing of the rule has run.
C17_EmptyCollectionRejected ==
  (stage # "unconstructed" /\ (sources_ = <<>> \/ targets_ = <<>>)) =>
    /\ stage = "failed"
    /\ outcome = "BadProperty"
    /\ NothingDone

\* The scalar degree of a FixedInDegree or FixedOutDegree builder.
Degree ==
  IF rule = "fixed_indegree" THEN conn_spec.indegree ELSE conn_spec.outdegree

\* The size of the population the degree is drawn from.
PopulationSize ==
  IF rule = "fixed_indegree" THEN Len(sources_) ELSE Len(targets_)

C19_TotalNumberConstruction ==
  (stage # "unconstructed" /\ rule = "fixed_total_number") =>
    /\ conn_spec.N < 0 => stage = "failed" /\ outcome = "BadProperty"
    /\ ~allow_multapses_ =>
         /\ stage = "failed"
         /\ outcome = IF conn_spec.N > Len(sources_) * Len(targets_) \/ conn_spec.N < 0
                      THEN "BadProperty" ELSE "NotImplemented"
         /\ NothingDone

\* C19 witness: construction with multapses suppressed and a total within
\* |sources| * |targets| has thrown NotImplemented.
C19_Witness ==
  /\ rule = "fixed_total_number"
  /\ stage = "failed" /\ outcome = "NotImplemented"
  /\ ~allow_multapses_
  /\ 0 < conn_spec.N /\ conn_spec.N <= Len(sources_) * Len(targets_)

\* What the claim requires of the inputs of a SymmetricBernoulli builder.
SymmetricInputsValid ==
  /\ 0 <= conn_spec.p /\ conn_spec.p < PDen
  /\ allow_multapses_ /\ ~allow_autapses_ /\ make_symmetric_

\* A step of a SymmetricBernoulli builder swaps no collection and moves no
\* parameter back.
NoSwapNoReset ==
  rule = "symmetric_pairwise_bernoulli" =>
    /\ sources_' = sources_ /\ targets_' = targets_
    /\ \A tid \in Threads : cursor'[tid] >= cursor[tid]

\* C20: construction of a SymmetricBernoulli builder throws BadProperty
\* unless 0 <= p < 1, allow_multapses = true, allow_autapses = false and
\* make_symmetric = true; connect() of a constructed builder runs connect_
\* exactly once: it has run it once when it returns, never resets a parameter,
\* never swaps sources and targets and never enters the replay.
C20_SymmetricBernoulliConstruction ==
  /\ []((rule = "symmetric_pairwise_bernoulli" /\ stage # "unconstructed") =>
          /\ stage = "failed" <=> ~SymmetricInputsValid
          /\ stage = "failed" => outcome = "BadProperty" /\ NothingDone
          /\ stage # "replay"
          /\ n_connect_ <= 1
          /\ stage = "returned" => n_connect_ = 1 /\ outcome = "ok")
  /\ [][NoSwapNoReset]_vars

\* C20 witness: connect() of a SymmetricBernoulli builder has returned after
\* one run of connect_ that emitted edges from array parameters.
C20_Witness ==
  /\ rule = "symmetric_pairwise_bernoulli"
  /\ stage = "returned" /\ n_connect_ = 1
  /\ skipping /\ \E tid \in Threads : cursor[tid] > 0
  /\ connections # EmptyBag

\* The configurations of a tripartite builder that the claim has rejected.
TripartiteRejected ==
  \/ conn_spec.p_primary < 0 \/ conn_spec.p_primary > PDen
  \/ conn_spec.p_third_if_primary < 0 \/ conn_spec.p_third_if_primary > PDen
  \/ conn_spec.pool_size < 1 \/ conn_spec.pool_size > Len(third_)
  \/ conn_spec.pool_type = "other"
  \/ /\ conn_spec.pool_type = "block"
     /\ ~(\/ Len(targets_) * conn_spec.pool_size = Len(third_)
          \/ conn_spec.pool_size = 1 /\ Len(targets_) % Len(third_) = 0)

\* C21: construction of a tripartite builder throws BadProperty when a
\* probability is outside [0, 1], when pool_size is below 1 or above |third|,
\* when pool_type is neither 'random' nor 'block', and in block mode unless
\* |targets| * pool_size = |third| or pool_size = 1 and |third| divides
\* |targets|; every other configuration is accepted.
C21_TripartiteConstruction ==
  (stage # "unconstructed" /\ rule = "tripartite_bernoulli_with_pool") =>
    IF TripartiteRejected
    THEN stage = "failed" /\ outcome = "BadProperty"
    ELSE stage # "failed"

\* C22: for OneToOne, AllToAll, FixedInDegree, FixedOutDegree,
\* FixedTotalNumber and Bernoulli, with the sequence of every per-VP generator
\* and of the synced generator fixed, a second build under any interleaving of
\* the worker threads ends with the multiset of edges, attribute values
\* included, of the first build, having read the same values of every
\* generator.
C22_DeterministicEdges ==
  (run.mode = "again" /\ stage = "returned") =>
    /\ connections = run.first.edges
    /\ run.log = run.first.log
    /\ \A g \in Generators : run.at[g] = Len(run.log[g])

\* C22 witness: the second build has returned; both threads emitted edges,
\* some edge carries the drawn parameter value 1, and each per-VP generator
\* was read at least twice.
C22_Witness ==
  /\ run.mode = "again" /\ stage = "returned"
  /\ random_params
  /\ \A tid \in Threads : \E e \in BagToSet(connections) : e.thread = tid
  /\ \A g \in Threads : Len(run.log[g]) >= 2
  /\ \E e \in BagToSet(connections) : e.rnd = 1

\* The threads that have made their call.
Called == {tid \in Threads : pc[tid] = "done"}

\* The count a call by one of the threads in T has added to: u when the node
\* is the one named and lives on one of them, 0 otherwise.
ChangedBy(T, node, named, u) ==
  IF node = named /\ owner[node] \in T THEN u ELSE 0

\* C23: change_connected_synaptic_elements(s, t, tid, u) changes the pre
\* count of s by u iff s is on this process and on thread tid, the post count
\* of t by u iff t is on this process and on thread tid, and returns true iff
\* t is on thread tid, wherever s lives; so once every thread has called it
\* for the same pair, each endpoint on the process has changed by exactly u
\* and exactly one thread, the one of t, got true when t is on the process,
\* none otherwise.
C23_ElementCounts ==
  stage = "change_elements" =>
    LET s == sources_[1]
        t == targets_[1]
        u == m.update
    IN /\ \A n \in Nodes :
            /\ z_connected[n].pre = ChangedBy(Called, n, s, u)
            /\ z_connected[n].post = ChangedBy(Called, n, t, u)
       /\ \A tid \in Called : loc[tid].local = (owner[t] = tid)
       /\ Called = Threads =>
            /\ z_connected[s].pre = IF is_local_node_id(s) THEN u ELSE 0
            /\ z_connected[t].post = IF is_local_node_id(t) THEN u ELSE 0
            /\ Cardinality({tid \in Threads : loc[tid].local}) =
                 IF is_local_node_id(t) THEN 1 ELSE 0

\* C23 witness: every thread has called for a pair whose source is on another
\* thread than its target; the source has one more pre element, the target
\* one more post element, and only the thread of the target got true.
C23_Witness ==
  /\ stage = "change_elements"
  /\ Called = Threads
  /\ is_local_node_id(sources_[1]) /\ is_local_node_id(targets_[1])
  /\ owner[sources_[1]] # owner[targets_[1]]
  /\ m.update = 1
  /\ z_connected[sources_[1]] = [pre |-> 1, post |-> 0]
  /\ z_connected[targets_[1]] = [pre |-> 0, post |-> 1]
  /\ loc[owner[targets_[1]]].local /\ ~loc[owner[sources_[1]]].local

\* The number of (source, target) pairs the structural-plasticity connect
\* loop of thread tid has iterated.
SpPairsIterated(tid) ==
  IF rule = "all_to_all" THEN it[tid] * Len(sources_) + loc[tid].j ELSE it[tid]

\* C24: in the structural-plasticity connect loops of OneToOne and AllToAll,
\* with a parameter that requires skipping, the cursor of every thread has
\* advanced once per pair the thread has iterated, by a value call for a pair
\* it emitted and by a skip of one for a pair of another thread, so that it
\* equals the pair index on all threads.
C24_SpCursorPerPair ==
  (stage = "sp_connect_" /\ skipping) =>
    \A tid \in Threads :
      exceptions_raised_[tid] = <<>> => cursor[tid] = SpPairsIterated(tid)

\* C25: Bernoulli in the target-loop regime with a parameter that requires
\* skipping: a thread's cursor advances by the same amount for a target that
\* is a proxy on it as for a target local to it, so that two threads that
\* have processed the same number of targets have equal cursors.
C25_BernoulliCursorsEqual ==
  (/\ rule = "pairwise_bernoulli" /\ stage = "connect_"
   /\ skipping /\ loop_over_targets_) =>
    \A t1, t2 \in Threads : it[t1] = it[t2] => cursor[t1] = cursor[t2]

\* C26: in SymmetricBernoulli every thread reads the same number of values of
\* the synchronized stream in each target iteration, whichever nodes are local
\* to it and whether the synapse parameters are constants or distributions:
\* the threads that have gone through all target iterations are at the same
\* position of the stream.
C26_SyncedStreamLockstep ==
  (rule = "symmetric_pairwise_bernoulli" /\ stage = "connect_") =>
    \A t1, t2 \in Threads :
      (pc[t1] = "done" /\ pc[t2] = "done") =>
        synced_rng.pos[t1] = synced_rng.pos[t2]

\* Number of third-in edges s -> x emitted for the pair (s, t), over all
\* threads.
ThirdIn(s, x, t) ==
  SumOver([tid \in Threads |-> Mult(connections, AuxEdge(tid, "third_in", s, x, t))],
          Threads)

\* Number of third-out edges x -> t, over all threads.
ThirdOut(x, t) ==
  SumOver([tid \in Threads |-> Mult(connections, AuxEdge(tid, "third_out", x, t, t))],
          Threads)

\* Number of third-in edges of the pair (s, t), whatever the third node.
ThirdInOfPair(s, t) == SumOver([x \in Nodes |-> ThirdIn(s, x, t)], Nodes)

\* C27: TripartiteBernoulliWithPool, once every thread has finished: each
\* (source, target) pair has at most one third-in edge, and only together with
\* its primary edge; for every third node x and target t there are as many
\* third-out edges x -> t as third-in edges to x of pairs of t; a third-in edge
\* is in the storage of the thread of x and a third-out edge in that of t; a
\* pair whose trial cannot fail has its third-in edge, a pair whose trial
\* cannot succeed, a rejected autapse and a pair that was not sampled have
\* none.
C27_ThirdFactorEdges ==
  (rule = "tripartite_bernoulli_with_pool" /\ stage = "returned") =>
    /\ \A e \in AuxEdges : e.thread = owner[e.tgt]
    /\ \A s, t \in Nodes :
         /\ ThirdInOfPair(s, t) <= 1
         /\ ThirdInOfPair(s, t) = 1 => Emitted(1, s, t) = 1
         /\ (Emitted(1, s, t) = 1 /\ conn_spec.p_third_if_primary = PDen) =>
              ThirdInOfPair(s, t) = 1
         /\ conn_spec.p_third_if_primary = 0 => ThirdInOfPair(s, t) = 0
         /\ (~allow_autapses_ /\ s = t) => ThirdInOfPair(s, t) = 0
    /\ \A x, t \in Nodes :
         ThirdOut(x, t) = SumOver([s \in Nodes |-> ThirdIn(s, x, t)], Nodes)
    /\ \A e \in AuxEdges :
         /\ e.syn = "third_in" => e.src \in Range(sources_) /\ e.for \in Range(targets_)
         /\ e.syn = "third_out" => e.tgt = e.for

\* C27 witness: a finished build in which one pair has its primary, third-in
\* and third-out edge, the third node on another thread than the target, and
\* another pair has its primary edge only.
C27_Witness ==
  /\ rule = "tripartite_bernoulli_with_pool" /\ stage = "returned"
  /\ \E s, t, x \in Nodes :
       /\ ThirdIn(s, x, t) = 1 /\ ThirdOut(x, t) = 1 /\ Emitted(1, s, t) = 1
       /\ owner[x] # owner[t]
  /\ \E s, t \in Nodes : Emitted(1, s, t) = 1 /\ ThirdInOfPair(s, t) = 0

\* Every edge is in the storage of the thread that holds its target, and
\* every captured exception is in the slot of the thread that caught it.
OwnStorageOnly ==
  /\ \A e \in DOMAIN connections :
       e.thread = owner[e.tgt] /\ ~is_proxy(e.tgt, e.thread)
  /\ \A tid \in Threads :
       \A i \in DOMAIN exceptions_raised_[tid] : exceptions_raised_[tid][i].thread = tid

\* Thread tid has not moved in this step: its place in its loop, its cursor,
\* its locals, its exception slot and its share of the connections to create.
Unmoved(tid) ==
  /\ pc'[tid] = pc[tid]
  /\ it'[tid] = it[tid]
  /\ cursor'[tid] = cursor[tid]
  /\ loc'[tid] = loc[tid]
  /\ exceptions_raised_'[tid] = exceptions_raised_[tid]
  /\ rule = "fixed_total_number" => m'.num_conns_on_vp[tid] = m.num_conns_on_vp[tid]

\* In a step inside a parallel region that appends an edge to the storage of
\* a thread or fills the exception slot of a thread, no other thread moves.
OwnStepOnly ==
  (stage \in {"connect_", "replay", "sp_connect_"} /\ stage' = stage) =>
    \A tid \in Threads :
      (\/ \E e \in DOMAIN connections' :
            e.thread = tid /\ Mult(connections', e) > Mult(connections, e)
       \/ exceptions_raised_'[tid] # exceptions_raised_[tid]) =>
        \A other \in Threads \ {tid} : Unmoved(other)

\* C28: in every rule a thread calls single_connect_ only for a target that
\* it holds and that is not a proxy on it: every edge is appended by the
\* thread of its target, to the storage and with the scratch dictionaries of
\* that thread, no pair is emitted by two threads, and a thread writes only
\* its own slot of exceptions_raised_.
C28_OwnThreadOnly == []OwnStorageOnly /\ [][OwnStepOnly]_vars

\* C28 witness: SymmetricBernoulli has returned with an edge and its reverse
\* edge in the storages of two threads.
C28_Witness ==
  /\ rule = "symmetric_pairwise_bernoulli" /\ stage = "returned"
  /\ \E e1, e2 \in DOMAIN connections :
       /\ e1.src = e2.tgt /\ e1.tgt = e2.src
       /\ e1.thread # e2.thread

\* The positions in the sequence done of what was done with operation op for
\* synapse spec k.
DoneAt(done, op, k) == {i \in DOMAIN done : done[i].op = op /\ done[i].syn = k}

TargetLoopEdges ==
  BagsOver([tid \in Threads |->
            IF rule = "one_to_one" THEN OneToOne_target_loop_edges(tid)
            ELSE AllToAll_target_loop_edges(tid)],
         Threads)

\* C30: loop_over_targets_() is false exactly when the target collection is
\* the contiguous range of all nodes and no parameter requires skipping; a
\* build of OneToOne or AllToAll ends with the edges the target loop emits for
\* its inputs and thread assignment, whether it took the target loop or the
\* local-node loop.
C30_LoopChoice ==
  rule \in {"one_to_one", "all_to_all"} =>
    /\ ~loop_over_targets_ <=>
         (/\ Range(targets_) = Nodes
          /\ \A i \in DOMAIN targets_ : targets_[i] = targets_[1] + i - 1
          /\ ~skipping)
    /\ stage = "returned" => connections = TargetLoopEdges

\* C30 witness: AllToAll has returned from its local-node loop with edges of
\* both threads and a rejected autapse.
C30_Witness ==
  /\ rule = "all_to_all" /\ stage = "returned"
  /\ ~loop_over_targets_
  /\ ~allow_autapses_ /\ Range(sources_) \cap Range(targets_) # {}
  /\ \A tid \in Threads : \E e \in DOMAIN connections : e.thread = tid

\* FixedInDegree or FixedOutDegree was given a scalar degree equal to the size
\* of the population it draws from, with multapses and autapses disabled and
\* sources and targets that intersect.
NoAdmissibleCandidate ==
  /\ rule \in {"fixed_indegree", "fixed_outdegree"}
  /\ PopulationSize > 0
  /\ Degree = PopulationSize
  /\ ~allow_multapses_ /\ ~allow_autapses_
  /\ Range(sources_) \cap Range(targets_) # {}

\* C31: FixedInDegree and FixedOutDegree built with a scalar degree equal to
\* the population size, multapses and autapses disabled and intersecting
\* sources and targets: the rule is aborted, no edge is ever emitted and no
\* exception is raised.
C31_RuleAborted ==
  (NoAdmissibleCandidate /\ stage # "unconstructed") =>
    /\ connections = EmptyBag
    /\ stage # "failed"
    /\ outcome \in {"none", "ok"}

\* The edges thread tid has emitted.
EmittedBy(conns, tid) ==
  [e \in {x \in BagToSet(conns) : x.thread = tid} |-> CopiesIn(e, conns)]

\* A connect() call is between its first parallel region and its return.
InConnect == stage \in {"sequential", "region", "connect_", "replay"}

\* C32: a worker thread whose slot holds a failure captured during a connect()
\* call emits no further edge during that call, neither in a later per-source
\* parallel region of FixedOutDegree nor in the make_symmetric replay pass.
C32_FailedWorkerSilent ==
  [][(InConnect /\ InConnect') =>
       \A tid \in Threads :
         Populated(tid) => EmittedBy(connections', tid) = EmittedBy(connections, tid)]_vars

\* A call of connect() or disconnect() on the builder has ended, normally or
\* with an exception.
CallEnded == stage \in {"returned", "disconnected"}

\* C33: when connect() has returned or raised, on the make_symmetric replay
\* path too and also when a worker failed in the forward or the replay pass,
\* sources_ and targets_ are the collections they were before the call;
\* disconnect() leaves them alone as well.
C33_RolesRestored ==
  (CallEnded \/ stage = "disconnect_") =>
    (sources_ = conn_spec.sources /\ targets_ = conn_spec.targets)

\* connect() has raised WrappedThreadException after the replay pass of a
\* builder whose sources and targets differ.
C33_Witness ==
  /\ stage = "returned"
  /\ n_connect_ = 2
  /\ outcome = "WrappedThreadException"
  /\ sources_ # targets_

\* The iterations of the loop of disconnect_ that thread tid has been through:
\* those before its position and, when an exception has ended its loop, the
\* one at its position.
DisconnectPassed(tid) ==
  IF pc[tid] = "done" /\ it[tid] < Len(targets_) THEN it[tid] + 1 ELSE it[tid]

\* The removals of thread tid for the first n index pairs of the collections
\* the builder was constructed with: one for each pair whose target the
\* thread owns.
RemovalsDue(tid, n) ==
  LET at == SelectSeq([i \in 1..n |-> i],
                      LAMBDA i : owner[conn_spec.targets[i]] = tid)
  IN [k \in DOMAIN at |-> [src |-> conn_spec.sources[at[k]],
                           tgt |-> conn_spec.targets[at[k]],
                           thread |-> tid]]

\* C35: disconnect() runs disconnect_ once, in the original orientation and
\* without a replay, a swap or a parameter reset, also under make_symmetric:
\* OneToOne disconnect_ issues one removal for each index i, for the pair
\* (sources[i], targets[i]) and on the thread that owns targets[i], and no
\* step of the call moves a parameter cursor.
C35_DisconnectOnce ==
  /\ [](stage \in {"disconnect_", "disconnected"} =>
          \A tid \in Threads :
            loc[tid].calls = RemovalsDue(tid, DisconnectPassed(tid)))
  /\ [][(stage = "disconnect_" \/ stage' = "disconnect_") =>
          UNCHANGED <<cursor, sources_, targets_, n_connect_>>]_vars

\* disconnect() has returned normally on a make_symmetric builder whose
\* connect() moved a parameter cursor; two threads have issued removals.
C35_Witness ==
  /\ stage = "disconnected"
  /\ outcome = "ok"
  /\ make_symmetric_
  /\ n_connect_ = 2
  /\ \E tid \in Threads : cursor[tid] > 0
  /\ \A tid \in Threads : loc[tid].calls # <<>>
  /\ sources_ # targets_

\* The edges of the pair (s, t) created on the thread of t with element x of
\* the array parameter.
EdgesWithElement(s, t, x) ==
  SetToBag({[thread |-> owner[t], syn |-> k, src |-> s, tgt |-> t,
             idx |-> x, rnd |-> 0] : k \in 1..n_syn})

\* C34: OneToOne with make_symmetric and an array-indexed parameter: the
\* cursors of all threads are reset between the forward pass and the replay,
\* and when connect() returns the reverse edge (targets[i], sources[i]) has
\* the array element of the forward edge (sources[i], targets[i]), for every
\* index pair that is connected and wherever the nodes live.
C34_SameElementBothWays ==
  /\ []((stage = "returned" /\ outcome = "ok") =>
          \E e \in [DOMAIN sources_ -> 0..Len(sources_)] :
            connections =
              BagsOver([i \in DOMAIN sources_ |->
                          IF OneToOneEmits(sources_, targets_, sources_[i], targets_[i])
                          THEN EdgesWithElement(sources_[i], targets_[i], e[i])
                               (+) EdgesWithElement(targets_[i], sources_[i], e[i])
                          ELSE EmptyBag],
                       DOMAIN sources_))
  /\ [][(stage = "connect_" /\ stage' = "replay") =>
          \A tid \in Threads : cursor'[tid] = 0]_vars

\* connect() has returned after a replay in which a reverse edge took an
\* element other than the first of the array on another thread than its
\* forward edge, after both threads had moved their cursors.
C34_Witness ==
  /\ stage = "returned" /\ outcome = "ok"
  /\ n_connect_ = 2
  /\ \E i \in DOMAIN sources_ : \E x \in 1..Len(sources_) :
       /\ owner[sources_[i]] # owner[targets_[i]]
       /\ BagIn([thread |-> owner[targets_[i]], syn |-> 1, src |-> sources_[i],
                 tgt |-> targets_[i], idx |-> x, rnd |-> 0], connections)
       /\ BagIn([thread |-> owner[sources_[i]], syn |-> 1, src |-> targets_[i],
                 tgt |-> sources_[i], idx |-> x, rnd |-> 0], connections)

\* The target whose iteration thread tid is in.
TargetOf(tid) == targets_[it[tid] + 1]

\* Number of edges of the three streams emitted for target t: primary edges
\* into t and third-factor edges of its pairs.
EdgesFor(conns, t) ==
  SumOver([e \in DOMAIN conns |->
             IF ("for" \in DOMAIN e /\ e.for = t) \/ ("for" \notin DOMAIN e /\ e.tgt = t)
             THEN conns[e] ELSE 0],
          DOMAIN conns)

\* C36: the primary stream of TripartiteBernoulliWithPool.  No (source,
\* target) pair is emitted twice.  When the thread of a target ends the
\* iteration of that target, the primary edges into it, over all threads, are
\* as many as the drawn in-degree, less one when the target itself was sampled
\* and autapses are disabled.  A drawn in-degree of 0 ends the iteration at
\* once: a thread adds edges of any stream for a target only after it has
\* drawn a positive in-degree for it.
C36_PrimaryStream ==
  /\ [](rule = "tripartite_bernoulli_with_pool" =>
          /\ \A s, t \in Nodes : Emitted(1, s, t) <= 1
          /\ \A tid \in Threads :
               (stage = "connect_" /\ pc[tid] = "run" /\ loc[tid].phase = "sources") =>
                 LET sampled == loc[tid].sources_to_connect_
                 IN /\ Len(sampled) >= 1
                    /\ \A i, j \in DOMAIN sampled : sampled[i] = sampled[j] => i = j)
  /\ [][\A tid \in Threads :
          (stage = "connect_" /\ pc[tid] = "run" /\ it'[tid] # it[tid]) =>
            IF loc[tid].phase = "indegree"
            THEN connections' = connections
            ELSE \A t \in {TargetOf(tid)} : \A n \in {Len(loc[tid].sources_to_connect_)} :
                   ~is_proxy(t, tid) =>
                     InDegree(1, t)' =
                       n - (IF /\ ~allow_autapses_
                               /\ t \in Range(loc[tid].sources_to_connect_)
                            THEN 1 ELSE 0)]_vars
  /\ [][\A t \in Range(targets_) :
          EdgesFor(connections', t) # EdgesFor(connections, t) =>
            \E tid \in Threads :
              /\ pc[tid] = "run" /\ loc[tid].phase = "sources"
              /\ TargetOf(tid) = t
              /\ loc'[tid] # loc[tid]]_vars

\* A finished build in which one target drew in-degree 2 with itself among
\* the sampled sources and has one primary edge, and another target has two.
C36_Witness ==
  /\ rule = "tripartite_bernoulli_with_pool" /\ stage = "returned"
  /\ ~allow_autapses_
  /\ conn_spec.p_primary = 1
  /\ \E t \in Range(targets_) \cap Range(sources_) : InDegree(1, t) = 1
  /\ \E t \in Range(targets_) : InDegree(1, t) = 2
  /\ \E t1, t2 \in Range(targets_) : owner[t1] # owner[t2]

\* C37: the failure slots do not leak between calls on one builder: a
\* disconnect() call in which every worker runs its loop to the end returns
\* normally, also when an earlier connect() on the builder raised
\* WrappedThreadException.
C37_SlotsDoNotLeak ==
  (/\ stage = "disconnected"
   /\ ~use_structural_plasticity_
   /\ \A tid \in Threads : it[tid] = Len(targets_)) =>
    outcome = "ok"

\* The degree is below the size of the population drawn from and multapses
\* are disabled, or autapses are allowed.
RedrawCovered ==
  \/ ~allow_multapses_ /\ Degree < PopulationSize
  \/ allow_autapses_

\* The threads of FixedInDegree that are about to draw a source.
InDegreeDrawing ==
  {tid \in Threads :
     /\ rule = "fixed_indegree" /\ stage = "connect_" /\ pc[tid] = "run"
     /\ LET tnode_id == IF loop_over_targets_ THEN targets_[it[tid] + 1]
                        ELSE get_local_nodes(tid)[it[tid] + 1]
        IN /\ tnode_id \in Range(targets_)
           /\ ~is_proxy(tnode_id, tid)
           /\ loc[tid].j < conn_spec.indegree}

\* FixedOutDegree is about to draw a target.
OutDegreeDrawing ==
  /\ rule = "fixed_outdegree" /\ stage = "sequential"
  /\ m.i < Len(sources_)
  /\ Len(m.tgt_ids_) < conn_spec.outdegree

\* C38: FixedInDegree and FixedOutDegree with a scalar degree the constructor
\* accepts and either multapses disabled and the degree below the population
\* size, or autapses allowed: wherever a redraw loop draws, a candidate exists
\* that it accepts, and with fair generators connect() returns.
C38_RedrawTerminates ==
  /\ [](RedrawCovered =>
          /\ \A tid \in InDegreeDrawing :
               LET tnode_id == IF loop_over_targets_ THEN targets_[it[tid] + 1]
                               ELSE get_local_nodes(tid)[it[tid] + 1]
               IN \E s_id \in 0..(Len(sources_) - 1) :
                    /\ ~FixedInDegree_skip_autapse(sources_[s_id + 1], tnode_id)
                    /\ ~FixedInDegree_skip_multapse(s_id, loc[tid].ch_ids)
          /\ OutDegreeDrawing =>
               \E t_id \in 0..(Len(targets_) - 1) :
                 /\ ~(~allow_autapses_ /\ targets_[t_id + 1] = sources_[m.i + 1])
                 /\ ~(~allow_multapses_ /\ t_id \in m.ch_ids))
  /\ RedrawCovered => <>(stage = "returned")

\* connect() has returned after redraw loops that had to leave out the target
\* itself and sources already chosen.
C38_Witness ==
  /\ stage = "returned" /\ outcome = "ok"
  /\ ~allow_multapses_ /\ ~allow_autapses_
  /\ Degree = PopulationSize - 1 /\ Degree > 0
  /\ Range(sources_) \cap Range(targets_) # {}
  /\ connections # EmptyBag

\* The worker of virtual process tid can draw a pair it accepts.
AcceptedPairExists(tid) ==
  \/ allow_autapses_
  \/ \E snode_id \in Range(sources_) :
       \E tnode_id \in Range(thread_local_targets(tid)) : snode_id # tnode_id

\* C39: the draw loop of FixedTotalNumber on each virtual process.  A worker
\* that still has connections to make has a local target to draw from; each
\* pass of the loop either emits one connection and takes one off the count
\* of the VP or, a rejected autapse, leaves both as they are, and a worker is
\* done only when its count is 0, so it emits exactly the count it was
\* assigned; with fair generators the loop of a worker ends whenever autapses
\* are allowed or some source differs from some local target.
C39_TotalNumberDrawLoop ==
  /\ [](stage = "connect_" =>
          \A tid \in Threads :
            /\ m.num_conns_on_vp[tid] > 0 => thread_local_targets(tid) # <<>>
            /\ pc[tid] = "run" <=> m.num_conns_on_vp[tid] > 0)
  /\ [][(stage = "connect_" /\ stage' = "connect_") =>
          \A tid \in Threads :
            /\ EmittedOn(tid, 1)' + m'.num_conns_on_vp[tid]
                 = EmittedOn(tid, 1) + m.num_conns_on_vp[tid]
            /\ m'.num_conns_on_vp[tid] \in
                 {m.num_conns_on_vp[tid], m.num_conns_on_vp[tid] - 1}]_vars
  /\ \A tid \in Threads :
       AcceptedPairExists(tid) =>
         <>(stage \in {"connect_", "returned"} /\ pc[tid] = "done")

\* connect() has returned after both workers emitted their counts, one of
\* them two connections, with autapses disabled and a source among the
\* targets.
C39_Witness ==
  /\ rule = "fixed_total_number" /\ stage = "returned"
  /\ ~allow_autapses_
  /\ Range(sources_) \cap Range(targets_) # {}
  /\ \A tid \in Threads : EmittedOn(tid, 1) >= 1
  /\ \E tid \in Threads : EmittedOn(tid, 1) >= 2

====
